---- MODULE Spec2Model ----
(***************************************************************************)
(* A model of the op dispatcher (organic-programming/op):                  *)
(*   - the transport selector (internal/cli/transport_chain.go),           *)
(*   - the reflection dependency walk (internal/grpcclient/client.go,      *)
(*     internal/cli/stdio_compose.go),                                     *)
(*   - the subprocess lifecycle of ephemeral TCP and stdio calls and the   *)
(*     single-use dialers (internal/cli/commands.go, stdio_compose.go,     *)
(*     internal/grpcclient/client.go).                                     *)
(* Strings whose characters the code inspects are sequences of one-        *)
(* character strings.                                                      *)
(***************************************************************************)
EXTENDS Integers, Sequences, FiniteSets, TLC

VARIABLES
    \* ---- the transport selector and its environment (working directory)
    cfgFile,      \* .holonconfig: "missing" | "unreadable" | "parseerror" | "ok"
    cfgDot,       \* top-level keys transport.<name>: key -> YAML value
    cfgTop,       \* the top-level key transport: [key, kind]
    cfgNested,    \* entries of the nested transport mapping: key -> YAML value
    cands,        \* resolveHolon's four sibling paths: 1..4 -> "absent"|"file"|"dir"
    pathBin,      \* whether exec.LookPath finds the binary
    manifests,    \* HOLON.md per directory: dir -> NoLang or Lang(the lang it declares)
    scanLang,     \* lang of the first matching identity of the holons/ scan
    envCount,     \* how many config entries and populated directories there are
    selPc,        \* "setup" | "done"
    holonName,    \* the name selectTransport was called with
    selResult,    \* what selectTransport returned
    \* ---- the reflection dependency walk (resolveService)
    reflPc,       \* "start" | "walk" | "built" | "error"
    filesByName,  \* descriptor name -> file descriptor
    queue,        \* descriptor names in the order they were registered
    qi,           \* the walk's position in queue (i of the outer loop, from 1)
    di,           \* the position in queue[qi]'s dependency list
    fds,          \* the file-descriptor set built from queue
    initial,      \* the files of the FileContainingSymbol answer
    delivered,    \* files received while resolving a dependency: {[dep, asked, file]}
    lookups,      \* how many dependencies were looked up
    lastLookup,   \* the dependency looked up last and the requests sent for it
    reqCount,     \* dependency name |-> FileByFilename requests sent for it so far
    \* ---- one invocation that launches a holon or dials a single connection
    via,          \* "none" | "tcp" | "stdio" | "pipe" | "ws"
    pc,           \* the dispatcher's position
    child,        \* "none" | "running" | "exited" | "reaped"
    status,       \* the child's exit status: "none" | "zero" | "nonzero" | "signal"
    listening,    \* the child accepts connections on its port
    probes,       \* readiness probes attempted
    ready,        \* a readiness probe succeeded
    rpcTried,     \* the RPC was attempted
    pending,      \* the exit code chosen, before deferred calls ran (-1: none)
    exitCode,     \* the exit code returned (-1: not returned)
    stderr,       \* the message printed on stderr
    callErr,      \* invokeViaReflection returned an error
    termErr,      \* what terminateStdioProcess returned ("unset": nothing yet)
    elapsed,      \* seconds since terminateStdioProcess began to wait
    sentTerm,     \* SIGTERM was delivered
    sentKill,     \* Process.Kill was called
    exitedAtSignal, \* the child had exited when Signal was called
    dialOnce,     \* the sync.Once of the stdio dialer has run
    dialed,       \* the flag of the WebSocket dialer
    dialLog,      \* what the dialer returned, call by call
    spawns,       \* how many times cmd.Start succeeded
    firstByte,    \* the first byte of the child's stdout was read
    \* ---- one dispatch: `<holon> <verb> [args]` or `grpc://<holon> <method>`
    dCmd,         \* the command line: cmd "none" | "holon" | "grpc", target, args
    dSel2,        \* what selectTransport returned inside cmdGRPCTCP
    dOut,         \* the route taken and how the command ended
    \* ---- the verb mapper on its own
    vArgs,        \* the argument list given to mapHolonCommandToRPC
    vOut,         \* what it returned
    \* ---- the search for the method among the services a server lists
    sPath,        \* "none" | "tcp" | "stdio" | "pipe" | "ws" | "mem"
    sListing,     \* the services of the ListServices answer, in order
    sMethod,      \* the method argument
    sOut,         \* what the search ended with
    \* ---- one reflection stream: the client's calls and the messages in flight
    rsPc,         \* the client: "send" | "recv" | "closed"
    rsSent,       \* how many requests the client has handed to Send
    rsCur,        \* the request whose answer the client is waiting for
    rsBroken,     \* the stream has failed
    toServer,     \* requests in flight, in order
    toClient,     \* responses in flight, in order
    rsPairs,      \* each response received, with the request the client took it for
    \* ---- the in-memory composer and the goroutines calling dialMemHolon
    mOnce,        \* composer.once: "fresh" | "running" | "done"
    mListener,    \* composer.listener: 0 (nil) or the listener's identity
    mCreated,     \* how many listeners transport.NewMemListener has made
    mServers,     \* the listeners a gRPC server serves on
    mCallers,     \* each goroutine: where it is, the name it asks for, what it dialed
    \* ---- parseGlobalFormat on its own
    fArgs,        \* the argument list given to parseGlobalFormat
    fOut,         \* what it returned
    \* ---- the stdio pseudo-listener of a serving holon
    connCh,       \* l.connCh: the connections buffered in the channel
    connChClosed, \* l.connCh was closed
    lDone,        \* l.done was closed
    lOnce,        \* l.once has run (Close was called)
    lPanic,       \* a closed channel was closed again
    lWaiting,     \* the goroutines inside Accept
    lAccepts,     \* what the Accept calls returned, in order of return
    lHeld,        \* the connection was handed out by Accept
    lLate,        \* the waiting callers that entered Accept after the hand-out
    lAfterClose,  \* the waiting callers that entered Accept after Close returned
    lConnPc,      \* stdioConn.Close: "idle" | "checked" (saw done open)
    \* ---- op run
    rArgs,        \* the arguments after `run`
    rOut,         \* what cmdRun did
    \* ---- the entry point
    tArgs,        \* the arguments Run was called with
    tOut,         \* the handler Run chose, what it handed to it, the exit code
    \* ---- the single-use dialers under concurrent calls
    dcOnce,       \* the sync.Once of the stdio dialer: "fresh" | "running" | "done"
    dcFlag,       \* the variable dialed of the WebSocket dialer
    dcCalls,      \* each goroutine: the dialer it calls, where it is, what it got
    \* ---- the port of ephemeral TCP dispatch
    ptPc,         \* cmdGRPCTCP: where it is
    ptOwner,      \* who listens on the port: "none" | "op" | "child" | "other"
    ptChild,      \* the spawned holon: "none" | "running" | "exited"
    ptProbes,     \* readiness probes made
    ptTarget      \* who answered the dial of the RPC

selVars == <<cfgFile, cfgDot, cfgTop, cfgNested, cands, pathBin, manifests,
             scanLang, envCount, selPc, holonName, selResult>>

reflVars == <<reflPc, filesByName, queue, qi, di, fds, initial, delivered, lookups,
             lastLookup, reqCount>>

lifeVars == <<via, pc, child, status, listening, probes, ready, rpcTried,
              pending, exitCode, stderr, callErr, termErr, elapsed, sentTerm,
              sentKill, exitedAtSignal, dialOnce, dialed, dialLog,
              spawns, firstByte>>

dispVars == <<dCmd, dSel2, dOut>>

\* The state of the components further down in this module.
\* ---- the verb mapper applied to one argument list
verbVars == <<vArgs, vOut>>

\* ---- the method search
searchVars == <<sPath, sListing, sMethod, sOut>>

\* ---- the reflection stream
streamVars == <<rsPc, rsSent, rsCur, rsBroken, toServer, toClient, rsPairs>>

\* ---- the in-memory composer
memVars == <<mOnce, mListener, mCreated, mServers, mCallers>>

\* ---- the global format flag
formatVars == <<fArgs, fOut>>

\* ---- the stdio pseudo-listener
acceptVars == <<connCh, connChClosed, lDone, lOnce, lPanic, lWaiting, lAccepts, lHeld,
                lLate, lAfterClose, lConnPc>>

\* ---- op run
runVars == <<rArgs, rOut>>

\* ---- the entry point Run
topVars == <<tArgs, tOut>>

raceVars == <<dcOnce, dcFlag, dcCalls>>

portVars == <<ptPc, ptOwner, ptChild, ptProbes, ptTarget>>

lastVars == <<topVars, raceVars, portVars>>

laterVars == <<formatVars, acceptVars, runVars, lastVars>>

lateVars == <<verbVars, searchVars, streamVars, memVars, laterVars>>

moreVars == <<dispVars, lateVars>>

vars == <<selVars, reflVars, lifeVars, moreVars>>

\* What a call of selectTransport leaves alone.
notSel == <<reflVars, lifeVars, moreVars>>

\* No reflection stream has been opened.
ReflFresh ==
    /\ reflPc = "start"
    /\ filesByName = <<>>
    /\ queue = <<>>
    /\ qi = 1
    /\ di = 1
    /\ fds = <<>>
    /\ initial = <<>>
    /\ delivered = {}
    /\ lookups = 0
    /\ lastLookup = [dep |-> <<>>, requests |-> <<>>]
    /\ reqCount = <<>>

\* Nothing was dispatched.
DispFresh ==
    /\ dCmd = [cmd |-> "none", target |-> <<>>, args |-> <<>>]
    /\ dSel2 = [ok |-> FALSE, scheme |-> <<>>, err |-> ""]
    /\ dOut = [route |-> "none", spawned |-> FALSE, rpc |-> FALSE,
               exit |-> -1, err |-> ""]

\* The verb mapper has not been applied.
VerbFresh ==
    /\ vArgs = <<>>
    /\ vOut = [applied |-> FALSE, method |-> <<>>, inputJSON |-> <<>>, err |-> ""]

\* No method has been searched for.
SearchFresh ==
    /\ sPath = "none"
    /\ sListing = <<>>
    /\ sMethod = <<>>
    /\ sOut = [invoked |-> FALSE, svc |-> "", method |-> <<>>, err |-> "",
               listed |-> FALSE, available |-> <<>>, tried |-> <<>>]

\* The reflection stream is open and nothing was sent.
StreamFresh ==
    /\ rsPc = "send"
    /\ rsSent = 0
    /\ rsCur = [id |-> 0, kind |-> "none"]
    /\ rsBroken = FALSE
    /\ toServer = <<>>
    /\ toClient = <<>>
    /\ rsPairs = <<>>

\* The goroutines that may call dialMemHolon.
MaxCallers == 3
Callers == 1..MaxCallers

\* The composer is untouched and no goroutine has called dialMemHolon.
MemFresh ==
    /\ mOnce = "fresh"
    /\ mListener = 0
    /\ mCreated = 0
    /\ mServers = {}
    /\ mCallers = [c \in Callers |-> [pc |-> "idle", name |-> <<>>, dialed |-> 0]]

\* parseGlobalFormat has not been applied.
FormatFresh ==
    /\ fArgs = <<>>
    /\ fOut = [applied |-> FALSE, format |-> <<>>, rest |-> <<>>, err |-> ""]

\* newStdioListener: one connection waits in the channel, nothing is closed.
AcceptFresh ==
    /\ connCh = <<"stdioConn">>
    /\ connChClosed = FALSE
    /\ lDone = FALSE
    /\ lOnce = FALSE
    /\ lPanic = FALSE
    /\ lWaiting = {}
    /\ lAccepts = <<>>
    /\ lHeld = FALSE
    /\ lLate = {}
    /\ lAfterClose = {}
    /\ lConnPc = "idle"

\* `op run` has not been called.
RunFresh ==
    /\ rArgs = <<>>
    /\ rOut = [exit |-> -1, spawned |-> FALSE, argv |-> <<>>, waited |-> FALSE,
               killed |-> FALSE, released |-> FALSE, err |-> ""]

\* Run has not been called.
TopFresh ==
    /\ tArgs = <<>>
    /\ tOut = [applied |-> FALSE, route |-> "none", target |-> <<>>, args |-> <<>>,
               exit |-> -1]

DialGoroutines == {"d1", "d2", "d3"}

RaceFresh ==
    /\ dcOnce = "fresh"
    /\ dcFlag = FALSE
    /\ dcCalls = [g \in DialGoroutines |-> [dialer |-> "none", pc |-> "idle", conn |-> "none"]]

PortFresh ==
    /\ ptPc = "idle"
    /\ ptOwner = "none"
    /\ ptChild = "none"
    /\ ptProbes = 0
    /\ ptTarget = "none"

LastFresh == TopFresh /\ RaceFresh /\ PortFresh

LaterFresh == FormatFresh /\ AcceptFresh /\ RunFresh /\ LastFresh

LateFresh == VerbFresh /\ SearchFresh /\ StreamFresh /\ MemFresh /\ LaterFresh

MoreFresh == DispFresh /\ LateFresh

\* No command has been dispatched.
LifeFresh ==
    /\ via = "none"
    /\ pc = "idle"
    /\ child = "none"
    /\ status = "none"
    /\ listening = FALSE
    /\ probes = 0
    /\ ready = FALSE
    /\ rpcTried = FALSE
    /\ pending = -1
    /\ exitCode = -1
    /\ stderr = ""
    /\ callErr = FALSE
    /\ termErr = "unset"
    /\ elapsed = 0
    /\ sentTerm = FALSE
    /\ sentKill = FALSE
    /\ exitedAtSignal = FALSE
    /\ dialOnce = FALSE
    /\ dialed = FALSE
    /\ dialLog = <<>>
    /\ spawns = 0
    /\ firstByte = FALSE

-----------------------------------------------------------------------------
(* Bounds *)

\* Config entries and populated directories the working directory holds at most.
MaxEnv == 2

-----------------------------------------------------------------------------
(* Strings *)

Uppers == <<"A","B","C","D","E","F","G","H","I","J","K","L","M",
            "N","O","P","Q","R","S","T","U","V","W","X","Y","Z">>
Lowers == <<"a","b","c","d","e","f","g","h","i","j","k","l","m",
            "n","o","p","q","r","s","t","u","v","w","x","y","z">>

LowerMap == [c \in {Uppers[i] : i \in 1..Len(Uppers)} |->
                Lowers[CHOOSE i \in 1..Len(Uppers) : Uppers[i] = c]]

LowerCh(c) == IF c \in DOMAIN LowerMap THEN LowerMap[c] ELSE c

\* strings.ToLower
ToLower(s) == [i \in 1..Len(s) |-> LowerCh(s[i])]

\* strings.EqualFold
EqualFold(a, b) == ToLower(a) = ToLower(b)

RECURSIVE TrimLeft(_)
TrimLeft(s) == IF s # <<>> /\ Head(s) = " " THEN TrimLeft(Tail(s)) ELSE s

RECURSIVE TrimRight(_)
TrimRight(s) ==
    IF s # <<>> /\ s[Len(s)] = " " THEN TrimRight(SubSeq(s, 1, Len(s) - 1)) ELSE s

\* strings.TrimSpace
TrimSpace(s) == TrimRight(TrimLeft(s))

\* strings.HasPrefix, strings.HasSuffix
HasPrefix(s, p) == Len(p) <= Len(s) /\ SubSeq(s, 1, Len(p)) = p
HasSuffix(s, p) == Len(p) <= Len(s) /\ SubSeq(s, Len(s) - Len(p) + 1, Len(s)) = p

\* strings.Index(s, sub): the first position of sub in s (1-based), 0 when absent
Index(s, sub) ==
    LET At == {i \in 1..(Len(s) - Len(sub) + 1) : SubSeq(s, i, i + Len(sub) - 1) = sub}
    IN IF At = {} THEN 0 ELSE CHOOSE i \in At : \A j \in At : i <= j

W_transport == <<"t","r","a","n","s","p","o","r","t">>
W_TRANSPORT == <<"T","R","A","N","S","P","O","R","T">>
N_who   == <<"w","h","o">>
N_WHO   == <<"W","h","O">>
N_atlas == <<"a","t","l","a","s">>

S_mem   == <<"m","e","m">>
S_stdio == <<"s","t","d","i","o">>
S_tcp   == <<"t","c","p">>
S_unix  == <<"u","n","i","x">>
S_ws    == <<"w","s">>
S_wss   == <<"w","s","s">>

\* The separator of a URI's scheme.
SchemeSep == <<":","/","/">>

-----------------------------------------------------------------------------
(* The transport selector: transport_chain.go *)

supportedTransportSchemes == {S_mem, S_stdio, S_tcp, S_unix, S_ws, S_wss}

\* transport.Scheme: the substring up to "://", the whole string without one.
Scheme(uri) ==
    LET i == Index(uri, SchemeSep)
    IN IF i > 0 THEN SubSeq(uri, 1, i - 1) ELSE uri

\* A decoded YAML value: a string, something that is no string (null, a number,
\* a mapping), or no entry at all.
YStr(s) == [t |-> "str", s |-> s]
YNull   == [t |-> "null", s |-> <<>>]
YAbsent == [t |-> "absent", s |-> <<>>]

\* What selectTransport and its helpers return.
Ok(scheme) == [ok |-> TRUE, scheme |-> scheme, err |-> ""]
Err(msg)   == [ok |-> FALSE, scheme |-> <<>>, err |-> msg]

normalizeTransportScheme(value) ==
    LET trimmed == TrimSpace(value)
        scheme  == ToLower(TrimSpace(Scheme(trimmed)))
    IN IF trimmed = <<>> THEN Err("invalid transport override")
       ELSE IF scheme \notin supportedTransportSchemes
            THEN Err("invalid transport override")
            ELSE Ok(scheme)

\* lookupDotTransportKey ranges over the map and returns at the first key that
\* folds to transport.<name>; Go's map order is unspecified, so with several
\* such keys any of them may be that first one. The set of possible returns.
lookupDotTransportKey(dot, name) ==
    LET M == {k \in DOMAIN dot :
                 dot[k].t # "absent" /\ EqualFold(k, W_transport \o <<".">> \o name)}
    IN IF M = {} THEN {[s |-> <<>>, ok |-> FALSE]}
       ELSE {[s |-> TrimSpace(dot[k].s), ok |-> dot[k].t = "str"] : k \in M}

\* A slip: the nested entry is found only under the holon name as written.
lookupNestedTransportKeyExact(top, nested, name) ==
    IF top.kind # "map" \/ ~EqualFold(top.key, W_transport)
    THEN {[s |-> <<>>, ok |-> FALSE]}
    ELSE LET M == {k \in DOMAIN nested : nested[k].t # "absent" /\ k = name}
         IN IF M = {} THEN {[s |-> <<>>, ok |-> FALSE]}
            ELSE {[s |-> TrimSpace(nested[k].s), ok |-> nested[k].t = "str"] : k \in M}

lookupNestedTransportKey(top, nested, name) ==
    IF top.kind = "absent" \/ ~EqualFold(top.key, W_transport)
    THEN {[s |-> <<>>, ok |-> FALSE]}
    ELSE IF top.kind # "map"
    THEN {[s |-> <<>>, ok |-> FALSE]}
    ELSE LET M == {k \in DOMAIN nested :
                      nested[k].t # "absent" /\ EqualFold(k, name)}
         IN IF M = {} THEN {[s |-> <<>>, ok |-> FALSE]}
            ELSE {[s |-> TrimSpace(nested[k].s), ok |-> nested[k].t = "str"] : k \in M}

\* The possible returns of lookupTransportOverride: [ok, scheme, err, found].
Override(r, found) == [ok |-> r.ok, scheme |-> r.scheme, err |-> r.err, found |-> found]
NoOverride == [ok |-> TRUE, scheme |-> <<>>, err |-> "", found |-> FALSE]

\* A slip: an override that does not normalise counts as no override.
lookupTransportOverrideLenient(file, dot, top, nested, name) ==
    IF file = "missing" THEN {NoOverride}
    ELSE IF file = "unreadable" THEN {Override(Err("read .holonconfig"), FALSE)}
    ELSE IF file = "parseerror" THEN {Override(Err("parse .holonconfig"), FALSE)}
    ELSE UNION {
        IF d.ok
        THEN {LET r == normalizeTransportScheme(d.s)
              IN IF r.ok THEN Override(r, TRUE) ELSE NoOverride}
        ELSE {IF n.ok
              THEN LET r == normalizeTransportScheme(n.s)
                   IN IF r.ok THEN Override(r, TRUE) ELSE NoOverride
              ELSE NoOverride
              : n \in lookupNestedTransportKey(top, nested, name)}
        : d \in lookupDotTransportKey(dot, name)}

lookupTransportOverride(file, dot, top, nested, name) ==
    IF file = "missing" THEN {NoOverride}
    ELSE IF file = "unreadable" THEN {Override(Err("read .holonconfig"), FALSE)}
    ELSE IF file = "parseerror" THEN {Override(Err("parse .holonconfig"), FALSE)}
    ELSE UNION {
        IF d.ok
        THEN {LET r == normalizeTransportScheme(d.s) IN Override(r, r.ok)}
        ELSE {IF n.ok
              THEN LET r == normalizeTransportScheme(n.s) IN Override(r, r.ok)
              ELSE NoOverride
              : n \in lookupNestedTransportKey(top, nested, name)}
        : d \in lookupDotTransportKey(dot, name)}

\* resolveHolon: the first sibling path that exists and is no directory, then
\* the executable search path. 0: not found; 1..4: that candidate; 5: from PATH.
NoBinary   == 0
PathBinary == 5

\* A slip: the executable search path is tried before the sibling paths.
resolveHolonPathFirst(cs, onPath) ==
    LET Hit == {i \in 1..4 : cs[i] = "file"}
    IN IF onPath THEN PathBinary
       ELSE IF Hit # {} THEN CHOOSE i \in Hit : \A j \in Hit : i <= j
       ELSE NoBinary

resolveHolon(cs, onPath) ==
    LET Hit == {i \in 1..4 : cs[i] = "file"}
    IN IF Hit # {} THEN CHOOSE i \in Hit : \A j \in Hit : i <= j
       ELSE IF onPath THEN PathBinary
       ELSE NoBinary

\* The directories whose HOLON.md readHolonLang may read.
ManifestDirs == {"holons/NAME", "holons/sophia-NAME", "holons/rhizome-NAME",
                 "holons/abel-fishel-NAME", "holons/babel-fish-NAME",
                 "holons", "PATHDIR", "PATHDIR/.."}

\* filepath.Dir of the binary's path, and of that.
BinaryDir(b) ==
    CASE b = 1 -> "holons/NAME"
      [] b = 2 -> "holons/sophia-NAME"
      [] b = 3 -> "holons/rhizome-NAME"
      [] b = 4 -> "holons/babel-fish-NAME"
      [] OTHER -> "PATHDIR"

BinaryParentDir(b) == IF b = PathBinary THEN "PATHDIR/.." ELSE "holons"

RECURSIVE Dedupe(_, _)
Dedupe(s, seen) ==
    IF s = <<>> THEN <<>>
    ELSE IF Head(s) \in seen THEN Dedupe(Tail(s), seen)
    ELSE <<Head(s)>> \o Dedupe(Tail(s), seen \cup {Head(s)})

holonMetadataCandidates(b) ==
    Dedupe(<<"holons/NAME", "holons/sophia-NAME", "holons/rhizome-NAME",
             "holons/abel-fishel-NAME", "holons/babel-fish-NAME">>
           \o (IF b # NoBinary THEN <<BinaryDir(b), BinaryParentDir(b)>> ELSE <<>>),
           {})

\* A manifest, a scan entry, or readHolonLang's return: none (missing,
\* unreadable, unparsable; an error), or the lang declared, which a manifest may
\* leave empty.
NoLang == [ok |-> FALSE, lang |-> <<>>]
Lang(l) == [ok |-> TRUE, lang |-> l]

RECURSIVE FirstLang(_, _)
FirstLang(dirs, ms) ==
    IF dirs = <<>> THEN NoLang
    ELSE IF ms[Head(dirs)].ok /\ ms[Head(dirs)].lang # <<>>
         THEN Lang(ms[Head(dirs)].lang)
         ELSE FirstLang(Tail(dirs), ms)

\* readHolonLang: the first candidate manifest with a non-empty lang, then the
\* first matching identity of the holons/ scan with one, else an error.
readHolonLang(b, ms, scan) ==
    LET first == FirstLang(holonMetadataCandidates(b), ms)
    IN IF first.ok THEN first
       ELSE IF scan.ok /\ scan.lang # <<>> THEN Lang(scan.lang)
       ELSE NoLang

\* A slip: the binary is resolved before the override is looked up.
selectTransportResolveFirst(file, dot, top, nested, cs, onPath, ms, scan, name) ==
    LET b == resolveHolon(cs, onPath)
        l == readHolonLang(b, ms, scan)
    IN IF b = NoBinary THEN {Err("holon not reachable")}
       ELSE UNION {
            IF ~o.ok THEN {Err(o.err)}
            ELSE IF o.found THEN {Ok(o.scheme)}
            ELSE IF l.ok /\ EqualFold(l.lang, <<"g","o">>) THEN {Ok(S_mem)}
            ELSE {Ok(S_stdio)}
            : o \in lookupTransportOverride(file, dot, top, nested, name)}

\* A slip: lang compared with == instead of strings.EqualFold.
selectTransportExactLang(file, dot, top, nested, cs, onPath, ms, scan, name) ==
    UNION {
        IF ~o.ok THEN {Err(o.err)}
        ELSE IF o.found THEN {Ok(o.scheme)}
        ELSE LET b == resolveHolon(cs, onPath)
                 l == readHolonLang(b, ms, scan)
             IN IF b = NoBinary THEN {Err("holon not reachable")}
                ELSE IF l.ok /\ l.lang = <<"g","o">> THEN {Ok(S_mem)}
                ELSE {Ok(S_stdio)}
        : o \in lookupTransportOverride(file, dot, top, nested, name)}

\* A slip: the lang rule is applied before the binary is known to resolve.
selectTransportLangFirst(file, dot, top, nested, cs, onPath, ms, scan, name) ==
    UNION {
        IF ~o.ok THEN {Err(o.err)}
        ELSE IF o.found THEN {Ok(o.scheme)}
        ELSE LET b == resolveHolon(cs, onPath)
                 l == readHolonLang(b, ms, scan)
             IN IF l.ok /\ EqualFold(l.lang, <<"g","o">>) THEN {Ok(S_mem)}
                ELSE IF b = NoBinary THEN {Err("holon not reachable")}
                ELSE {Ok(S_stdio)}
        : o \in lookupTransportOverride(file, dot, top, nested, name)}

\* selectTransport: the override, else mem for a resolvable holon whose lang
\* folds to "go", else stdio for a resolvable one. The set of possible returns.
selectTransport(file, dot, top, nested, cs, onPath, ms, scan, name) ==
    UNION {
        IF ~o.ok THEN {Err(o.err)}
        ELSE IF o.found THEN {Ok(o.scheme)}
        ELSE LET b == resolveHolon(cs, onPath)
                 l == readHolonLang(b, ms, scan)
             IN IF b = NoBinary THEN {Err("holon not reachable")}
                ELSE IF l.ok /\ EqualFold(l.lang, <<"g","o">>) THEN {Ok(S_mem)}
                ELSE {Ok(S_stdio)}
        : o \in lookupTransportOverride(file, dot, top, nested, name)}

-----------------------------------------------------------------------------
(* The working directory the selector runs in *)

DotKeys  == {W_transport \o <<".">> \o N_who, W_TRANSPORT \o <<".">> \o N_WHO}
TopKeys  == {W_transport, W_TRANSPORT}
NestKeys == {N_who, N_WHO}
Names    == {N_who, N_atlas}

\* The values a config entry is given.
CfgValues ==
    { YStr(<<"m","e","m",":","/","/">>),
      YStr(<<" ","S","t","d","i","o",":","/","/"," ">>),
      YStr(<<"t","c","p",":","/","/","h",":","9">>),
      YStr(<<"u","n","i","x",":","/","/","/","s">>),
      YStr(<<"w","s",":","/","/","h">>),
      YStr(<<"W","S","S">>),
      YStr(<<>>),
      YStr(<<" ">>),
      YStr(<<"h","t","t","p",":","/","/","h">>),
      YNull }

\* The langs a manifest declares.
LangValues == {<<"g","o">>, <<"G","o">>, <<"r","u","s","t">>, <<>>}

\* Whether directory d holds a binary or a manifest.
DirUsed(cs, onPath, ms, d) ==
    \/ ms[d].ok
    \/ \E i \in 1..4 : cs[i] # "absent" /\ BinaryDir(i) = d
    \/ onPath /\ d = "PATHDIR"

SelFresh ==
    /\ cfgFile = "missing"
    /\ cfgDot = [k \in DotKeys |-> YAbsent]
    /\ cfgTop = [key |-> W_transport, kind |-> "absent"]
    /\ cfgNested = [k \in NestKeys |-> YAbsent]
    /\ cands = [i \in 1..4 |-> "absent"]
    /\ pathBin = FALSE
    /\ manifests = [d \in ManifestDirs |-> NoLang]
    /\ scanLang = NoLang
    /\ envCount = 0
    /\ selPc = "setup"
    /\ holonName = <<>>
    /\ selResult = Err("")

SelInit == SelFresh /\ ReflFresh /\ LifeFresh /\ MoreFresh

\* Seeding goes on while the working directory stays within its bound: a new
\* config entry or a newly populated directory counts, a second file in a
\* populated directory does not.
CanAdd ==
    /\ selPc = "setup"
    /\ envCount < MaxEnv
    /\ envCount' = envCount + 1

CanTouch(d) ==
    /\ selPc = "setup"
    /\ IF DirUsed(cands, pathBin, manifests, d)
       THEN envCount' = envCount
       ELSE envCount < MaxEnv /\ envCount' = envCount + 1

\* .holonconfig gets a flat key transport.<name>: <value>.
WriteDotKey ==
    /\ CanAdd
    /\ cfgFile \in {"missing", "ok"}
    /\ \E k \in DotKeys, v \in CfgValues :
          /\ cfgDot[k].t = "absent"
          /\ cfgDot' = [cfgDot EXCEPT ![k] = v]
    /\ cfgFile' = "ok"
    /\ UNCHANGED <<cfgTop, cfgNested, cands, pathBin, manifests, scanLang,
                   selPc, holonName, selResult, notSel>>

\* .holonconfig gets an entry of the nested mapping transport: {<name>: <value>}.
WriteNestedKey ==
    /\ CanAdd
    /\ cfgFile \in {"missing", "ok"}
    /\ cfgTop.kind # "nonmap"
    /\ \E k \in NestKeys, v \in CfgValues :
          /\ cfgNested[k].t = "absent"
          /\ cfgNested' = [cfgNested EXCEPT ![k] = v]
    /\ \E tk \in TopKeys :
          /\ cfgTop.kind = "map" => tk = cfgTop.key
          /\ cfgTop' = [key |-> tk, kind |-> "map"]
    /\ cfgFile' = "ok"
    /\ UNCHANGED <<cfgDot, cands, pathBin, manifests, scanLang,
                   selPc, holonName, selResult, notSel>>

\* .holonconfig gets a top-level transport key whose value is no mapping.
WriteTopScalar ==
    /\ CanAdd
    /\ cfgFile \in {"missing", "ok"}
    /\ cfgTop.kind = "absent"
    /\ \E tk \in TopKeys : cfgTop' = [key |-> tk, kind |-> "nonmap"]
    /\ cfgFile' = "ok"
    /\ UNCHANGED <<cfgDot, cfgNested, cands, pathBin, manifests, scanLang,
                   selPc, holonName, selResult, notSel>>

\* .holonconfig exists and cannot be read, or is no YAML.
BreakConfig ==
    /\ CanAdd
    /\ cfgFile = "missing"
    /\ cfgFile' \in {"unreadable", "parseerror"}
    /\ UNCHANGED <<cfgDot, cfgTop, cfgNested, cands, pathBin, manifests, scanLang,
                   selPc, holonName, selResult, notSel>>

\* One of resolveHolon's sibling paths comes to exist, as a file or a directory.
SeedBinary ==
    /\ \E i \in 1..4, kind \in {"file", "dir"} :
          /\ CanTouch(BinaryDir(i))
          /\ cands[i] = "absent"
          /\ cands' = [cands EXCEPT ![i] = kind]
    /\ UNCHANGED <<cfgFile, cfgDot, cfgTop, cfgNested, pathBin, manifests, scanLang,
                   selPc, holonName, selResult, notSel>>

\* The binary is installed on the executable search path.
InstallOnPath ==
    /\ CanTouch("PATHDIR")
    /\ ~pathBin
    /\ pathBin' = TRUE
    /\ UNCHANGED <<cfgFile, cfgDot, cfgTop, cfgNested, cands, manifests, scanLang,
                   selPc, holonName, selResult, notSel>>

\* A HOLON.md declaring a lang is written to one of the directories.
SeedManifest ==
    /\ \E d \in ManifestDirs, l \in LangValues :
          /\ CanTouch(d)
          /\ ~manifests[d].ok
          /\ manifests' = [manifests EXCEPT ![d] = Lang(l)]
    /\ UNCHANGED <<cfgFile, cfgDot, cfgTop, cfgNested, cands, pathBin, scanLang,
                   selPc, holonName, selResult, notSel>>

\* An identity matching the holon is found only by the scan of holons/.
SeedScanned ==
    /\ CanAdd
    /\ ~scanLang.ok
    /\ \E l \in LangValues : scanLang' = Lang(l)
    /\ UNCHANGED <<cfgFile, cfgDot, cfgTop, cfgNested, cands, pathBin, manifests,
                   selPc, holonName, selResult, notSel>>

\* A call of selectTransport(name).
SelectTransport ==
    /\ selPc = "setup"
    /\ \E name \in Names :
          /\ holonName' = name
          /\ selResult' \in selectTransport(cfgFile, cfgDot, cfgTop, cfgNested,
                                            cands, pathBin, manifests, scanLang, name)
    /\ selPc' = "done"
    /\ UNCHANGED <<cfgFile, cfgDot, cfgTop, cfgNested, cands, pathBin, manifests,
                   scanLang, envCount, notSel>>

SelNext ==
    \/ WriteDotKey
    \/ WriteNestedKey
    \/ WriteTopScalar
    \/ BreakConfig
    \/ SeedBinary
    \/ InstallOnPath
    \/ SeedManifest
    \/ SeedScanned
    \/ SelectTransport

SpecSelect == SelInit /\ [][SelNext]_vars

-----------------------------------------------------------------------------
(* The selector's claims, over SpecSelect *)

\* The entries .holonconfig holds for a name, in either shape.
EntriesFor(name) ==
    {cfgDot[k] : k \in {d \in DotKeys :
        cfgDot[d].t # "absent" /\ ToLower(d) = W_transport \o <<".">> \o ToLower(name)}}
    \cup (IF cfgTop.kind = "map"
          THEN {cfgNested[k] : k \in {n \in NestKeys :
                    cfgNested[n].t # "absent" /\ ToLower(n) = ToLower(name)}}
          ELSE {})

\* The scheme each well-formed override value names, as a table.
OverrideTable ==
    { <<YStr(<<"m","e","m",":","/","/">>), S_mem>>,
      <<YStr(<<" ","S","t","d","i","o",":","/","/"," ">>), S_stdio>>,
      <<YStr(<<"t","c","p",":","/","/","h",":","9">>), S_tcp>>,
      <<YStr(<<"u","n","i","x",":","/","/","/","s">>), S_unix>>,
      <<YStr(<<"w","s",":","/","/","h">>), S_ws>>,
      <<YStr(<<"W","S","S">>), S_wss>> }

\* The override values that are strings and name no scheme of the closed set.
MalformedValues ==
    { YStr(<<>>), YStr(<<" ">>), YStr(<<"h","t","t","p",":","/","/","h">>) }

\* The name has overrides, and all of them name scheme s.
OverriddenTo(name, s) ==
    /\ EntriesFor(name) # {}
    /\ \A e \in EntriesFor(name) : <<e, s>> \in OverrideTable

NoOverrideFor(name) ==
    /\ cfgFile \in {"missing", "ok"}
    /\ EntriesFor(name) = {}

BinaryResolves == pathBin \/ \E i \in 1..4 : cands[i] = "file"

GoSpellings == {<<"g","o">>, <<"G","o">>, <<"g","O">>, <<"G","O">>}

\* C1: a name whose overrides in .holonconfig name a scheme of the closed set
\* is given exactly that scheme, whether or not a binary resolves and
\* whatever the manifests say.
C1_OverridePrecedence ==
    selPc = "done" =>
        \A s \in supportedTransportSchemes :
            OverriddenTo(holonName, s) => selResult = Ok(s)

\* C1's case: an override to tcp wins over a resolvable binary whose manifest
\* says Go.
C1_Witness ==
    /\ selPc = "done"
    /\ OverriddenTo(holonName, S_tcp)
    /\ cands[1] = "file"
    /\ manifests["holons/NAME"] = Lang(<<"G","o">>)
    /\ selResult = Ok(S_tcp)

\* C2: with no override and a resolvable binary the result is mem exactly when
\* the declared lang is "go" in some letter case, and stdio otherwise (another
\* lang, or no manifest).
C2_LangRule ==
    (selPc = "done" /\ NoOverrideFor(holonName) /\ BinaryResolves) =>
        LET l == readHolonLang(resolveHolon(cands, pathBin), manifests, scanLang)
            first == manifests["holons/NAME"]
        IN /\ selResult.ok
           /\ selResult.scheme \in {S_mem, S_stdio}
           /\ selResult.scheme = S_mem <=> (l.ok /\ l.lang \in GoSpellings)
           /\ (first.ok /\ first.lang # <<>>) =>
                 (selResult.scheme = S_mem <=> first.lang \in GoSpellings)
           /\ ((\A d \in ManifestDirs : ~manifests[d].ok) /\ ~scanLang.ok)
                 => selResult.scheme = S_stdio

\* C2's case: a binary and a manifest saying Go give mem.
C2_Witness ==
    /\ selPc = "done"
    /\ NoOverrideFor(holonName)
    /\ cands[1] = "file"
    /\ manifests["holons/NAME"] = Lang(<<"G","o">>)
    /\ selResult = Ok(S_mem)

\* C3: with no override and no resolvable binary selectTransport fails with
\* exactly "holon not reachable".
C3_Unreachable ==
    (selPc = "done" /\ NoOverrideFor(holonName) /\ ~BinaryResolves) =>
        selResult = Err("holon not reachable")

\* C3's case: a manifest saying go, a directory where the binary should be,
\* and no binary.
C3_Witness ==
    /\ selPc = "done"
    /\ NoOverrideFor(holonName)
    /\ ~BinaryResolves
    /\ cands[1] = "dir"
    /\ manifests["holons/NAME"] = Lang(<<"g","o">>)
    /\ selResult = Err("holon not reachable")

-----------------------------------------------------------------------------
(* The reflection dependency walk.  resolveService (grpcclient/client.go)  *)
(* and resolveReflectedService (cli/stdio_compose.go) are line for line    *)
(* the same algorithm; one model stands for both.                          *)

\* Files in one reflection answer at most.
MaxResp == 2
\* Dependencies one walk looks up at most.
MaxLookups == 2

\* What a reflection walk leaves alone.
notRefl == <<selVars, lifeVars, moreVars>>

Protos == <<"p", "r", "o", "t", "o", "s", "/">>
D_svc == <<"s">>
D_foo == <<"f">>
D_bar == <<"b">>
D_pfoo == Protos \o D_foo

\* A FileDescriptorProto: its name, its dependency list and the rest of it.
FileDesc(n, deps) == [name |-> n, dependency |-> deps, body |-> <<n, deps>>]

\* The descriptors a server may send.
Pool ==
    { FileDesc(D_svc, <<D_foo>>), FileDesc(D_svc, <<D_pfoo>>),
      FileDesc(D_svc, <<D_foo, D_bar>>),
      FileDesc(D_foo, <<>>), FileDesc(D_pfoo, <<D_bar>>),
      FileDesc(D_bar, <<>>), FileDesc(<<>>, <<>>) }

\* What comes back for one request: the files of a FileDescriptorResponse, or
\* an error (Send or Recv failing, no FileDescriptorResponse, a file that
\* does not unmarshal).
Answers ==
    {[t |-> "files", files |-> fl] :
        fl \in UNION {[1..n -> Pool] : n \in 0..MaxResp}}
    \cup {[t |-> "error", files |-> <<>>]}

Put(files, n, fd) ==
    [x \in DOMAIN files \cup {n} |-> IF x = n THEN fd ELSE files[x]]

\* Mutation: a name already present is stored and queued once more.
RECURSIVE RegisterAgain(_, _, _, _)
RegisterAgain(reg, depFiles, k, aliasSourceName) ==
    IF k > Len(depFiles) THEN reg
    ELSE LET name == depFiles[k].name
         IN IF \/ name = <<>>
               \/ (aliasSourceName # <<>> /\ name = aliasSourceName)
            THEN RegisterAgain(reg, depFiles, k + 1, aliasSourceName)
            ELSE RegisterAgain([files |-> Put(reg.files, name, depFiles[k]),
                                queue |-> Append(reg.queue, name)],
                               depFiles, k + 1, aliasSourceName)

\* The requests sent so far for a dependency name.
Requests(count, dep) == IF dep \in DOMAIN count THEN count[dep] ELSE 0

\* The registration loop: files without a name, the alias source and names
\* already present are passed over; the others are stored and queued.
RECURSIVE Register(_, _, _, _)
Register(reg, depFiles, k, aliasSourceName) ==
    IF k > Len(depFiles) THEN reg
    ELSE LET name == depFiles[k].name
         IN IF \/ name = <<>>
               \/ (aliasSourceName # <<>> /\ name = aliasSourceName)
               \/ name \in DOMAIN reg.files
            THEN Register(reg, depFiles, k + 1, aliasSourceName)
            ELSE Register([files |-> Put(reg.files, name, depFiles[k]),
                           queue |-> Append(reg.queue, name)],
                          depFiles, k + 1, aliasSourceName)

\* The first received name that is not dep and ends with dep, "" if none.
AliasSourceName(depFiles, dep) ==
    LET ks == {k \in 1..Len(depFiles) :
                  /\ depFiles[k].name # <<>>
                  /\ depFiles[k].name # dep
                  /\ HasSuffix(depFiles[k].name, dep)}
    IN IF ks = {} THEN <<>>
       ELSE depFiles[CHOOSE k \in ks : \A j \in ks : k <= j].name

\* Mutation: the alias source is registered under its own name as well.
ResolveDependencyKeepSource(files, q, dep, depFiles) ==
    LET alias == AliasSourceName(depFiles, dep)
        resolvedDepName == \E k \in 1..Len(depFiles) : depFiles[k].name = dep
        r == Register([files |-> files, queue |-> q], depFiles, 1, <<>>)
        ks == {k \in 1..Len(depFiles) : depFiles[k].name = alias}
        src == depFiles[CHOOSE k \in ks : \A j \in ks : k <= j]
    IN IF ~resolvedDepName /\ alias # <<>>
       THEN [files |-> Put(r.files, dep, [src EXCEPT !.name = dep]),
             queue |-> Append(r.queue, dep)]
       ELSE r

\* What the walk does with the files received for a dependency.
ResolveDependency(files, q, dep, depFiles) ==
    LET alias == AliasSourceName(depFiles, dep)
        resolvedDepName == \E k \in 1..Len(depFiles) :
                              depFiles[k].name # <<>> /\ depFiles[k].name = dep
        r == Register([files |-> files, queue |-> q], depFiles, 1, alias)
        ks == {k \in 1..Len(depFiles) : depFiles[k].name = alias}
        src == depFiles[CHOOSE k \in ks : \A j \in ks : k <= j]
    IN IF ~resolvedDepName /\ alias # <<>>
       THEN [files |-> Put(r.files, dep, [src EXCEPT !.name = dep]),
             queue |-> Append(r.queue, dep)]
       ELSE r

\* Mutation: after a lookup the file's dependency list is read again from
\* its first entry.
RECURSIVE NextPosAgain(_, _, _, _)
NextPosAgain(files, q, i, j) ==
    IF i > Len(q) THEN [i |-> i, j |-> 1]
    ELSE LET deps == files[q[i]].dependency
             missing == {k \in 1..Len(deps) : deps[k] \notin DOMAIN files}
         IN IF missing = {} THEN NextPosAgain(files, q, i + 1, 1)
            ELSE [i |-> i, j |-> CHOOSE k \in missing : \A m \in missing : k <= m]

\* The next (file, dependency) position whose dependency is not yet present;
\* i = Len(q) + 1 when the walk is over.
RECURSIVE NextPos(_, _, _, _)
NextPos(files, q, i, j) ==
    IF i > Len(q) THEN [i |-> i, j |-> 1]
    ELSE LET deps == files[q[i]].dependency
         IN IF j > Len(deps) THEN NextPos(files, q, i + 1, 1)
            ELSE IF deps[j] \in DOMAIN files THEN NextPos(files, q, i, j + 1)
            ELSE [i |-> i, j |-> j]

ReflInit == SelFresh /\ ReflFresh /\ LifeFresh /\ MoreFresh

\* FileContainingSymbol(service) is sent and its answer registered.
ResolveServiceStart ==
    /\ reflPc = "start"
    /\ \E a \in Answers :
          /\ initial' = a.files
          /\ IF a.t = "error"
             THEN /\ reflPc' = "error"
                  /\ UNCHANGED <<filesByName, queue, qi, di>>
             ELSE LET r == Register([files |-> <<>>, queue |-> <<>>], a.files, 1, <<>>)
                      p == NextPos(r.files, r.queue, 1, 1)
                  IN /\ reflPc' = "walk"
                     /\ filesByName' = r.files
                     /\ queue' = r.queue
                     /\ qi' = p.i
                     /\ di' = p.j
    /\ UNCHANGED <<fds, delivered, lookups, lastLookup, reqCount, notRefl>>

\* Mutation: a failed lookup is always asked again with the prefix.
retryAlways(dep, a) == a.t = "error"

\* err != nil && !strings.HasPrefix(dep, "protos/")
retryWithPrefix(dep, a) == a.t = "error" /\ ~HasPrefix(dep, Protos)

\* The walk reaches a dependency that is not present: FileByFilename(dep), on
\* an error once more with protos/ prepended, then registration and alias.
WalkDependency ==
    /\ reflPc = "walk"
    /\ qi <= Len(queue)
    /\ lookups < MaxLookups
    /\ LET dep == filesByName[queue[qi]].dependency[di]
           retry(a) == retryWithPrefix(dep, a)
       IN \E a1 \in Answers :
          \E a2 \in (IF retry(a1) THEN Answers ELSE {a1}) :
             /\ delivered' = delivered \cup
                   {[dep |-> dep,
                     asked |-> IF retry(a1) THEN Protos \o dep ELSE dep,
                     file |-> a2.files[k]] : k \in 1..Len(a2.files)}
             /\ reqCount' = Put(reqCount, dep,
                                 Requests(reqCount, dep) + (IF retry(a1) THEN 2 ELSE 1))
             /\ lastLookup' =
                   [dep |-> dep,
                    requests |->
                      <<[name |-> dep, failed |-> a1.t = "error"]>> \o
                      (IF retry(a1)
                       THEN <<[name |-> Protos \o dep, failed |-> a2.t = "error"]>>
                       ELSE <<>>)]
             /\ IF a2.t = "error"
                THEN /\ reflPc' = "error"
                     /\ UNCHANGED <<filesByName, queue, qi, di>>
                ELSE LET r == ResolveDependency(filesByName, queue, dep, a2.files)
                         p == NextPos(r.files, r.queue, qi, di + 1)
                     IN /\ reflPc' = "walk"
                        /\ filesByName' = r.files
                        /\ queue' = r.queue
                        /\ qi' = p.i
                        /\ di' = p.j
    /\ lookups' = lookups + 1
    /\ UNCHANGED <<fds, initial, notRefl>>

\* The walk is over: the FileDescriptorSet is assembled in queue order.
BuildSet ==
    /\ reflPc = "walk"
    /\ qi > Len(queue)
    /\ fds' = [k \in 1..Len(queue) |-> filesByName[queue[k]]]
    /\ reflPc' = "built"
    /\ UNCHANGED <<filesByName, queue, qi, di, initial, delivered, lookups,
                   lastLookup, reqCount, notRefl>>

ReflNext ==
    \/ ResolveServiceStart
    \/ WalkDependency
    \/ BuildSet

SpecReflect == ReflInit /\ [][ReflNext]_vars

-----------------------------------------------------------------------------
(* The walk's claims, over SpecReflect *)

InSet(n) == \E k \in 1..Len(fds) : fds[k].name = n

\* The alias case: FileByFilename(dep) itself was answered, with a file named
\* protos/<dep> and no file named <dep>.
AliasDeliveries ==
    {x \in delivered :
        /\ x.asked = x.dep
        /\ x.file.name = Protos \o x.dep
        /\ \A y \in delivered : y.dep = x.dep => y.file.name # x.dep}

\* A file of that name came in an answer in which it was no alias source:
\* with the FileContainingSymbol answer, or for a dependency whose name it
\* does not merely end with.
DeliveredOtherwise(n) ==
    \/ \E k \in 1..Len(initial) : initial[k].name = n
    \/ \E y \in delivered :
          y.file.name = n /\ (n = y.dep \/ ~HasSuffix(n, y.dep))

C7_DependencyClosure ==
    reflPc = "built" =>
        \A k \in 1..Len(fds) :
            \A j \in 1..Len(fds[k].dependency) : InSet(fds[k].dependency[j])

-----------------------------------------------------------------------------
(* One invocation: the ephemeral TCP call (cmdGRPCTCP), the stdio call     *)
(* (callViaStdio, terminateStdioProcess), grpcclient.DialStdio and         *)
(* grpcclient.DialWebSocket with their single-use dialers, and the child   *)
(* process they launch.                                                    *)

\* Calls of a dialer in one invocation at most.
MaxDials == 3
\* Attempts of the readiness loop.
MaxProbes == 50
\* Seconds terminateStdioProcess waits after SIGTERM.
TermBudget == 3

\* What an invocation leaves alone.
notLife == <<selVars, reflVars, moreVars>>

childVars == <<child, status, listening>>
probeVars == <<probes, ready>>
termVars == <<callErr, termErr, elapsed, sentTerm, exitedAtSignal>>
dialVars == <<dialOnce, dialed, dialLog>>

\* Error messages of the dialers, word by word.
AlreadyConsumed == <<"already", "consumed">>
ErrStdioConsumed == <<"stdio", "pipe">> \o AlreadyConsumed
ErrWsConsumed == <<"ws", "connection">> \o AlreadyConsumed

\* Mutation: the pipe is handed out on every call.
stdioDialerReusable(once) ==
    [conn |-> "pConn", err |-> <<>>, once |-> TRUE]

\* The dialer of DialStdio: dialOnce.Do sets conn the first time only.
stdioDialer(once) ==
    LET conn == IF once THEN "nil" ELSE "pConn"
    IN IF conn = "nil"
       THEN [conn |-> "nil", err |-> ErrStdioConsumed, once |-> TRUE]
       ELSE [conn |-> conn, err |-> <<>>, once |-> TRUE]

\* The dialer of DialWebSocket.
wsDialer(flag) ==
    IF flag
    THEN [conn |-> "nil", err |-> ErrWsConsumed, once |-> flag]
    ELSE [conn |-> "wsConn", err |-> <<>>, once |-> TRUE]

\* cmd.Wait() for a child that exited with the given status.
Wait(st) == IF st = "zero" THEN "nil" ELSE "ExitError"

LifeInit == SelFresh /\ ReflFresh /\ LifeFresh /\ MoreFresh

\* cmdGRPCTCP picks a port and starts the holon with serve --listen tcp://:port.
SpawnTCP ==
    /\ pc = "idle"
    /\ via' = "tcp"
    /\ \/ /\ \E msg \in {"cannot allocate port", "cannot start"} : stderr' = msg
          /\ exitCode' = 1
          /\ pc' = "returned"
          /\ UNCHANGED <<child, spawns>>
       \/ /\ child' = "running"
          /\ spawns' = spawns + 1
          /\ pc' = "probing"
          /\ UNCHANGED <<exitCode, stderr>>
    /\ UNCHANGED <<status, listening, probeVars, rpcTried, pending, termVars,
                   sentKill, dialVars, firstByte, notLife>>

\* One turn of the readiness loop: net.DialTimeout succeeds only if the port
\* is listened on; a failed attempt is followed by the next one.
Probe ==
    /\ pc = "probing"
    /\ probes < MaxProbes
    /\ probes' = probes + 1
    /\ \E ok \in (IF listening THEN {TRUE, FALSE} ELSE {FALSE}) :
          /\ ready' = ok
          /\ pc' = IF ok THEN "calling" ELSE "probing"
    /\ UNCHANGED <<via, childVars, rpcTried, pending, exitCode, stderr, termVars,
                   sentKill, dialVars, spawns, firstByte, notLife>>

\* Mutation: after the last failed probe the call is made all the same.
GiveUpAndCall ==
    /\ pc = "probing"
    /\ probes = MaxProbes
    /\ pc' = "calling"
    /\ UNCHANGED <<via, childVars, probeVars, rpcTried, pending, exitCode, stderr,
                   termVars, sentKill, dialVars, spawns, firstByte, notLife>>

\* Mutation: after the last failed probe the holon is started once more.
GiveUpRespawn ==
    /\ pc = "probing"
    /\ probes = MaxProbes
    /\ ~ready
    /\ spawns' = spawns + 1
    /\ child' = "running"
    /\ listening' = FALSE
    /\ probes' = 0
    /\ UNCHANGED <<via, pc, status, ready, rpcTried, pending, exitCode, stderr,
                   termVars, sentKill, dialVars, firstByte, notLife>>

\* The loop ended and no probe succeeded.
GiveUp ==
    /\ pc = "probing"
    /\ probes = MaxProbes
    /\ ~ready
    /\ stderr' = "did not start within 5s"
    /\ pending' = 1
    /\ pc' = "deferred"
    /\ UNCHANGED <<via, childVars, probeVars, rpcTried, exitCode, termVars,
                   sentKill, dialVars, spawns, firstByte, notLife>>

\* cmdGRPCDirect against the child's port.
CallDirect ==
    /\ pc = "calling"
    /\ rpcTried' = TRUE
    /\ \E code \in {0, 1} : pending' = code
    /\ pc' = "deferred"
    /\ UNCHANGED <<via, childVars, probeVars, exitCode, stderr, termVars,
                   sentKill, dialVars, spawns, firstByte, notLife>>

\* The deferred cmd.Process.Kill(); cmd.Wait() of cmdGRPCTCP and of DialStdio,
\* then the return.
DeferredKillWait ==
    /\ pc = "deferred"
    /\ via \in {"tcp", "pipe"}
    /\ sentKill' = TRUE
    /\ child' = "reaped"
    /\ status' = IF child = "running" THEN "signal" ELSE status
    /\ listening' = FALSE
    /\ exitCode' = pending
    /\ pc' = "returned"
    /\ UNCHANGED <<via, probeVars, rpcTried, pending, stderr, termVars,
                   dialVars, spawns, firstByte, notLife>>

\* The child binds its port.
ChildListens ==
    /\ via = "tcp"
    /\ child = "running"
    /\ ~listening
    /\ listening' = TRUE
    /\ UNCHANGED <<via, pc, child, status, probeVars, rpcTried, pending, exitCode,
                   stderr, termVars, sentKill, dialVars, spawns, firstByte, notLife>>

\* The child exits: of its own accord, or on SIGTERM once it was delivered.
ChildExits ==
    /\ child = "running"
    /\ pc # "returned"
    /\ child' = "exited"
    /\ \E st \in {"zero", "nonzero"} \cup (IF sentTerm THEN {"signal"} ELSE {}) :
          status' = st
    /\ listening' = FALSE
    /\ UNCHANGED <<via, pc, probeVars, rpcTried, pending, exitCode, stderr,
                   termVars, sentKill, dialVars, spawns, firstByte, notLife>>

\* callViaStdio: the go-holons DialStdio launches the holon and hands back the
\* connection and the command, or fails.
DialStdioHolon ==
    /\ pc = "idle"
    /\ via' = "stdio"
    /\ \/ /\ stderr' = "dial stdio"
          /\ exitCode' = 1
          /\ pc' = "returned"
          /\ UNCHANGED <<child, spawns>>
       \/ /\ child' = "running"
          /\ spawns' = spawns + 1
          /\ pc' = "invoke"
          /\ UNCHANGED <<exitCode, stderr>>
    /\ UNCHANGED <<status, listening, probeVars, rpcTried, pending, termVars,
                   sentKill, dialVars, firstByte, notLife>>

\* invokeViaReflection returns the output or an error (reflection, method
\* lookup, RPC, deadline).
InvokeViaReflection ==
    /\ pc = "invoke"
    /\ rpcTried' = TRUE
    /\ callErr' \in BOOLEAN
    /\ pc' = "terminate"
    /\ UNCHANGED <<via, childVars, probeVars, pending, exitCode, stderr, termErr,
                   elapsed, sentTerm, exitedAtSignal, sentKill, dialVars, spawns, firstByte, notLife>>

\* terminateStdioProcess, first half: Process.Signal(SIGTERM).  An error other
\* than ErrProcessDone is returned at once; otherwise cmd.Wait is started.
TermSignal ==
    /\ pc = "terminate"
    /\ exitedAtSignal' = (child = "exited")
    /\ \E err \in {"nil", "error"} :
          IF err # "nil"
          THEN /\ termErr' = "send SIGTERM"
               /\ pc' = "result"
               /\ UNCHANGED <<sentTerm, elapsed>>
          ELSE /\ sentTerm' = TRUE
               /\ elapsed' = 0
               /\ pc' = "select"
               /\ UNCHANGED termErr
    /\ UNCHANGED <<via, childVars, probeVars, rpcTried, pending, exitCode, stderr,
                   callErr, sentKill, dialVars, spawns, firstByte, notLife>>

\* The select receives cmd.Wait's result: the child has exited and is reaped.
TermWaitReturns ==
    /\ pc = "select"
    /\ child = "exited"
    /\ child' = "reaped"
    /\ termErr' = IF Wait(status) = "nil" THEN "nil" ELSE "wait process exit"
    /\ pc' = "result"
    /\ UNCHANGED <<via, status, listening, probeVars, rpcTried, pending, exitCode,
                   stderr, callErr, elapsed, sentTerm, exitedAtSignal, sentKill,
                   dialVars, spawns, firstByte, notLife>>

\* A second of the wait goes by.  cmd.Wait returns as soon as the child has
\* exited, so time passes in the select only while the child still runs.
Tick ==
    /\ pc = "select"
    /\ child = "running"
    /\ elapsed < TermBudget
    /\ elapsed' = elapsed + 1
    /\ UNCHANGED <<via, pc, childVars, probeVars, rpcTried, pending, exitCode,
                   stderr, callErr, termErr, sentTerm, exitedAtSignal, sentKill,
                   dialVars, spawns, firstByte, notLife>>

\* The select receives time.After(3 s): Kill, then the wait's result.
TermTimeout ==
    /\ pc = "select"
    /\ elapsed = TermBudget
    /\ sentKill' = TRUE
    /\ child' = "reaped"
    /\ status' = IF child = "running" THEN "signal" ELSE status
    /\ listening' = FALSE
    /\ termErr' = "process did not exit after SIGTERM"
    /\ pc' = "result"
    /\ UNCHANGED <<via, probeVars, rpcTried, pending, exitCode, stderr, callErr,
                   elapsed, sentTerm, exitedAtSignal, dialVars, spawns, firstByte, notLife>>

\* callViaStdio returns callErr, else cleanupErr, else the output; cmdGRPCStdio
\* turns an error into exit code 1.
StdioReturn ==
    /\ pc = "result"
    /\ exitCode' = IF callErr \/ termErr # "nil" THEN 1 ELSE 0
    /\ stderr' = IF callErr THEN "call error"
                 ELSE IF termErr # "nil" THEN termErr ELSE stderr
    /\ pc' = "returned"
    /\ UNCHANGED <<via, childVars, probeVars, rpcTried, pending, termVars,
                   sentKill, dialVars, spawns, firstByte, notLife>>

\* grpcclient.DialStdio creates the pipes and starts the holon.
PipeStart ==
    /\ pc = "idle"
    /\ via' = "pipe"
    /\ \/ /\ stderr' = "start"
          /\ exitCode' = 1
          /\ pc' = "returned"
          /\ UNCHANGED <<child, spawns>>
       \/ /\ child' = "running"
          /\ spawns' = spawns + 1
          /\ pc' = "firstbyte"
          /\ UNCHANGED <<exitCode, stderr>>
    /\ UNCHANGED <<status, listening, probeVars, rpcTried, pending, termVars,
                   sentKill, dialVars, firstByte, notLife>>

\* Mutation: the handshake goes ahead whether or not the byte was read.
PipeFirstByteLenient ==
    /\ pc = "firstbyte"
    /\ \/ /\ firstByte' = TRUE
          /\ UNCHANGED stderr
       \/ /\ \E msg \in {"server did not start", "server startup timeout"} :
                stderr' = msg
          /\ UNCHANGED firstByte
    /\ pc' = "dialing"
    /\ UNCHANGED <<via, childVars, probeVars, rpcTried, pending, exitCode, termVars,
                   sentKill, dialVars, spawns, notLife>>

\* The first byte of the child's stdout arrives, or the read fails, or the
\* deadline passes.
PipeFirstByte ==
    /\ pc = "firstbyte"
    /\ \/ /\ firstByte' = TRUE
          /\ pc' = "dialing"
          /\ UNCHANGED <<pending, stderr>>
       \/ /\ \E msg \in {"server did not start", "server startup timeout"} :
                stderr' = msg
          /\ pending' = 1
          /\ pc' = "deferred"
          /\ UNCHANGED firstByte
    /\ UNCHANGED <<via, childVars, probeVars, rpcTried, exitCode, termVars,
                   sentKill, dialVars, spawns, notLife>>

\* grpcclient.DialWebSocket: websocket.Dial.
WsDial ==
    /\ pc = "idle"
    /\ via' = "ws"
    /\ \/ /\ stderr' = "websocket dial"
          /\ exitCode' = 1
          /\ pc' = "returned"
       \/ /\ pc' = "dialing"
          /\ UNCHANGED <<exitCode, stderr>>
    /\ UNCHANGED <<childVars, probeVars, rpcTried, pending, termVars,
                   sentKill, dialVars, spawns, firstByte, notLife>>

\* gRPC calls the dialer: for the first connection, and again whenever the
\* handshake failed or the transport broke.
DialAttempt ==
    /\ pc \in {"dialing", "connected"}
    /\ Len(dialLog) < MaxDials
    /\ LET r == IF via = "pipe" THEN stdioDialer(dialOnce) ELSE wsDialer(dialed)
       IN /\ dialLog' = Append(dialLog, [conn |-> r.conn, err |-> r.err])
          /\ IF via = "pipe"
             THEN dialOnce' = r.once /\ UNCHANGED dialed
             ELSE dialed' = r.once /\ UNCHANGED dialOnce
          /\ pc' \in (IF r.conn # "nil" THEN {"dialing", "connected"} ELSE {pc})
    /\ UNCHANGED <<via, childVars, probeVars, rpcTried, pending, exitCode, stderr,
                   termVars, sentKill, spawns, firstByte, notLife>>

\* grpc.DialContext gives up (the context's deadline).
DialContextFails ==
    /\ pc = "dialing"
    /\ stderr' = "grpc handshake"
    /\ IF via = "pipe"
       THEN pending' = 1 /\ pc' = "deferred" /\ UNCHANGED exitCode
       ELSE exitCode' = 1 /\ pc' = "returned" /\ UNCHANGED pending
    /\ UNCHANGED <<via, childVars, probeVars, rpcTried, termVars, sentKill,
                   dialVars, spawns, firstByte, notLife>>

\* Reflection and the RPC over the single connection.
CallOverConn ==
    /\ pc = "connected"
    /\ rpcTried' = TRUE
    /\ \E code \in {0, 1} :
          IF via = "pipe"
          THEN pending' = code /\ pc' = "deferred" /\ UNCHANGED exitCode
          ELSE exitCode' = code /\ pc' = "returned" /\ UNCHANGED pending
    /\ UNCHANGED <<via, childVars, probeVars, stderr, termVars, sentKill,
                   dialVars, spawns, firstByte, notLife>>

LifeNext ==
    \/ SpawnTCP
    \/ Probe
    \/ GiveUp
    \/ CallDirect
    \/ DeferredKillWait
    \/ ChildListens
    \/ ChildExits
    \/ DialStdioHolon
    \/ InvokeViaReflection
    \/ TermSignal
    \/ TermWaitReturns
    \/ Tick
    \/ TermTimeout
    \/ StdioReturn
    \/ PipeStart
    \/ PipeFirstByte
    \/ WsDial
    \/ DialAttempt
    \/ DialContextFails
    \/ CallOverConn

SpecLifecycle == LifeInit /\ [][LifeNext]_vars

-----------------------------------------------------------------------------
(* The invocation's claims, over SpecLifecycle *)

\* C5: in any sequence of calls of the stdio pipe dialer or of the WebSocket
\* dialer the first call returns the connection, every later call returns an
\* error whose message contains "already consumed", and the connection is
\* handed out once at most.
C5_SingleUse ==
    /\ \A k \in 1..Len(dialLog) :
          IF k = 1
          THEN dialLog[k].conn # "nil" /\ dialLog[k].err = <<>>
          ELSE dialLog[k].conn = "nil" /\ Index(dialLog[k].err, AlreadyConsumed) > 0
    /\ Cardinality({k \in 1..Len(dialLog) : dialLog[k].conn # "nil"}) <= 1

\* The pipe dialer was called three times: the pipe, then two refusals.
C5_Witness ==
    /\ via = "pipe"
    /\ Len(dialLog) >= 3
    /\ dialLog[1].conn = "pConn"
    /\ dialLog[2].err = ErrStdioConsumed
    /\ dialLog[3].err = ErrStdioConsumed

\* C8: when the dispatcher returns from an invocation that spawned a child,
\* the child has been signalled or killed, and it has been waited for.
C8_Cleanup ==
    (pc = "returned" /\ child # "none") =>
        (sentTerm \/ sentKill) /\ child = "reaped"

\* C9: the ephemeral TCP call is attempted only after a readiness probe
\* succeeded; the probe is attempted 50 times at most; and when no probe
\* succeeded there is no RPC, the message is 'did not start within 5s', the
\* exit code is 1 and the child is killed and waited for before the return.
C9_ProbeThenCall ==
    via = "tcp" =>
        /\ probes <= MaxProbes
        /\ rpcTried => ready
        /\ pc = "calling" => ready
        /\ (pc \in {"deferred", "returned"} /\ child # "none" /\ ~ready) =>
              /\ ~rpcTried
              /\ probes = MaxProbes
              /\ stderr = "did not start within 5s"
              /\ pending = 1
        /\ (pc = "returned" /\ child # "none" /\ ~ready) =>
              exitCode = 1 /\ sentKill /\ child = "reaped"

\* Fifty probes failed: no RPC, the message, exit code 1, the child reaped.
C9_Witness ==
    /\ via = "tcp"
    /\ pc = "returned"
    /\ probes = MaxProbes
    /\ ~ready
    /\ ~rpcTried
    /\ stderr = "did not start within 5s"
    /\ exitCode = 1
    /\ child = "reaped"

\* C10: terminateStdioProcess waits only once SIGTERM is sent; it kills only
\* when the 3 s went by without the exit being observed; and when the child
\* had exited before the signal was sent it reports no error.
C10_Terminate ==
    via = "stdio" =>
        /\ pc = "select" => sentTerm
        /\ sentKill => (sentTerm /\ elapsed = TermBudget)
        /\ (termErr # "unset" /\ exitedAtSignal) => termErr = "nil"

-----------------------------------------------------------------------------
(* The verb mapper (commands.go): mapHolonCommandToRPC,                    *)
(* mapCommandNameToMethod, looksLikeJSON.                                  *)

V_new == <<"n", "e", "w">>
V_list == <<"l", "i", "s", "t">>
V_show == <<"s", "h", "o", "w">>
V_pin == <<"p", "i", "n">>
M_CreateIdentity == <<"C", "r", "e", "a", "t", "e", "I", "d", "e", "n", "t", "i", "t", "y">>
M_ListIdentities == <<"L", "i", "s", "t", "I", "d", "e", "n", "t", "i", "t", "i", "e", "s">>
M_ShowIdentity == <<"S", "h", "o", "w", "I", "d", "e", "n", "t", "i", "t", "y">>
M_PinVersion == <<"P", "i", "n", "V", "e", "r", "s", "i", "o", "n">>
K_rootDir == <<"r", "o", "o", "t", "D", "i", "r">>
K_uuid == <<"u", "u", "i", "d">>
EmptyObject == <<"{", "}">>

\* Mutation: an unknown command comes back as it was compared, in lower case.
mapCommandNameToMethodFolded(command) ==
    LET c == ToLower(TrimSpace(command))
    IN IF c = V_new THEN M_CreateIdentity
       ELSE IF c = V_list THEN M_ListIdentities
       ELSE IF c = V_show THEN M_ShowIdentity
       ELSE IF c = V_pin THEN M_PinVersion
       ELSE c

mapCommandNameToMethod(command) ==
    LET c == ToLower(TrimSpace(command))
    IN IF c = V_new THEN M_CreateIdentity
       ELSE IF c = V_list THEN M_ListIdentities
       ELSE IF c = V_show THEN M_ShowIdentity
       ELSE IF c = V_pin THEN M_PinVersion
       ELSE command

looksLikeJSON(value) ==
    LET trimmed == TrimSpace(value)
    IN HasPrefix(trimmed, <<"{">>) \/ HasPrefix(trimmed, <<"[">>)

\* encoding/json on a string: quotes and backslashes are escaped, and so are
\* the characters <, > and & (as <, >, &).
RECURSIVE JsonEscape(_)
JsonEscape(v) ==
    IF v = <<>> THEN <<>>
    ELSE (IF Head(v) = "\"" THEN <<"\\", "\"">>
          ELSE IF Head(v) = "\\" THEN <<"\\", "\\">>
          ELSE IF Head(v) = "<" THEN <<"\\", "u", "0", "0", "3", "c">>
          ELSE IF Head(v) = ">" THEN <<"\\", "u", "0", "0", "3", "e">>
          ELSE IF Head(v) = "&" THEN <<"\\", "u", "0", "0", "2", "6">>
          ELSE <<Head(v)>>) \o JsonEscape(Tail(v))

\* json.Marshal(map[string]string{key: value})
MarshalPair(key, value) ==
    <<"{", "\"">> \o key \o <<"\"", ":", "\"">> \o JsonEscape(value) \o <<"\"", "}">>

Mapped(method, inputJSON) == [method |-> method, inputJSON |-> inputJSON, err |-> ""]
MapError(msg) == [method |-> <<>>, inputJSON |-> <<>>, err |-> msg]

\* Mutation: the verb's own payload wins over a JSON argument.
mapHolonCommandToRPCTableFirst(args) ==
    LET command == TrimSpace(args[1])
        rest == Tail(args)
        method == mapCommandNameToMethod(command)
        verb == ToLower(command)
    IN IF verb = V_list
       THEN (IF Len(rest) > 0 /\ ~looksLikeJSON(rest[1])
             THEN Mapped(method, MarshalPair(K_rootDir, rest[1]))
             ELSE Mapped(method, EmptyObject))
       ELSE IF verb = V_show
       THEN (IF Len(rest) < 1 THEN MapError("show requires <uuid>")
             ELSE Mapped(method, MarshalPair(K_uuid, rest[1])))
       ELSE IF verb = V_pin
       THEN (IF Len(rest) < 1 THEN MapError("pin requires <uuid>")
             ELSE Mapped(method, MarshalPair(K_uuid, rest[1])))
       ELSE IF Len(rest) > 0 /\ looksLikeJSON(rest[1]) THEN Mapped(method, rest[1])
       ELSE Mapped(method, EmptyObject)

mapHolonCommandToRPC(args) ==
    LET command == TrimSpace(args[1])
        rest == Tail(args)
        method == mapCommandNameToMethod(command)
        verb == ToLower(command)
    IN IF Len(rest) > 0 /\ looksLikeJSON(rest[1]) THEN Mapped(method, rest[1])
       ELSE IF verb = V_list
       THEN (IF Len(rest) > 0
             THEN Mapped(method, MarshalPair(K_rootDir, rest[1]))
             ELSE Mapped(method, EmptyObject))
       ELSE IF verb = V_show
       THEN (IF Len(rest) < 1 THEN MapError("show requires <uuid>")
             ELSE Mapped(method, MarshalPair(K_uuid, rest[1])))
       ELSE IF verb = V_pin
       THEN (IF Len(rest) < 1 THEN MapError("pin requires <uuid>")
             ELSE Mapped(method, MarshalPair(K_uuid, rest[1])))
       ELSE Mapped(method, EmptyObject)

-----------------------------------------------------------------------------
(* Dispatch (commands.go, mem_compose.go): cmdHolon, cmdGRPC and the        *)
(* handlers they hand the invocation to.  An outcome records the route      *)
(* taken, whether a subprocess was started, whether an RPC was sent, and    *)
(* the exit code.                                                           *)

notDisp == <<reflVars, lifeVars, lateVars>>

N_sophia == <<"s", "o", "p", "h", "i", "a">>
N_sophia_who == <<"s", "o", "p", "h", "i", "a", "-", "w", "h", "o">>
memComposeRegistry == {N_who, N_sophia, N_sophia_who}

P_grpc == <<"g", "r", "p", "c", ":", "/", "/">>
P_grpc_stdio == <<"g", "r", "p", "c", "+", "s", "t", "d", "i", "o", ":", "/", "/">>
P_grpc_unix == <<"g", "r", "p", "c", "+", "u", "n", "i", "x", ":", "/", "/">>
P_grpc_ws == <<"g", "r", "p", "c", "+", "w", "s", ":", "/", "/">>
P_grpc_wss == <<"g", "r", "p", "c", "+", "w", "s", "s", ":", "/", "/">>
A_hostport == <<"h", ":", "1">>

TrimPrefix(s, prefix) ==
    IF HasPrefix(s, prefix) THEN SubSeq(s, Len(prefix) + 1, Len(s)) ELSE s

Out(route, spawned, rpc, exit, err) ==
    [route |-> route, spawned |-> spawned, rpc |-> rpc, exit |-> exit, err |-> err]

\* No selection was made by the handler.
NotSelected == Err("")

\* selectTransport in the working directory as it is.
selectTransportHere(name) ==
    selectTransport(cfgFile, cfgDot, cfgTop, cfgNested, cands, pathBin,
                    manifests, scanLang, name)

resolveMemComposer(name) == ToLower(TrimSpace(name)) \in memComposeRegistry

\* callViaMem: dialMemHolon fails on a name without composer; otherwise the
\* call goes over the in-process listener and may succeed or fail.
callViaMem(name) ==
    IF resolveMemComposer(name)
    THEN {Out("mem", FALSE, TRUE, 0, ""), Out("mem", FALSE, TRUE, 1, "rpc")}
    ELSE {Out("mem", FALSE, FALSE, 1, "mem composition not available")}

\* callViaStdio: the binary is started with its pipes adopted, then called.
callViaStdio ==
    {Out("stdio", TRUE, TRUE, 0, ""), Out("stdio", TRUE, TRUE, 1, "rpc"),
     Out("stdio", FALSE, FALSE, 1, "start")}

cmdGRPCMem(name, args) ==
    IF Len(args) < 1 THEN {Out("mem", FALSE, FALSE, 1, "method required")}
    ELSE callViaMem(name)

cmdGRPCStdio(uri, args) ==
    IF Len(args) < 1 THEN {Out("stdio", FALSE, FALSE, 1, "method required")}
    ELSE IF resolveHolon(cands, pathBin) = NoBinary
    THEN {Out("stdio", FALSE, FALSE, 1, "not found")}
    ELSE callViaStdio

\* Listing (no argument) and calling both talk to the server at the address.
cmdGRPCDirect(address, args) ==
    {Out("direct", FALSE, TRUE, 0, ""), Out("direct", FALSE, TRUE, 1, "rpc")}

cmdGRPCWebSocket(uri, args) ==
    {Out("ws", FALSE, TRUE, 0, ""), Out("ws", FALSE, TRUE, 1, "rpc")}

\* net.SplitHostPort on an address without brackets: exactly one colon.
isHostPort(address) ==
    Cardinality({i \in 1..Len(address) : address[i] = ":"}) = 1

\* The spawn, probe and call of ephemeral mode, once the binary is resolved.
ephemeralTCP ==
    {Out("tcp", TRUE, TRUE, 0, ""), Out("tcp", TRUE, TRUE, 1, "rpc"),
     Out("tcp", TRUE, FALSE, 1, "did not start"),
     Out("tcp", FALSE, FALSE, 1, "cannot start")}

Routed(sel, sel2, outs) == {[sel |-> sel, sel2 |-> sel2, out |-> o] : o \in outs}

cmdGRPCTCP(uri, args) ==
    LET address == TrimPrefix(uri, P_grpc)
    IN IF isHostPort(address)
       THEN Routed(NotSelected, NotSelected, cmdGRPCDirect(address, args))
       ELSE IF Len(args) < 1
       THEN Routed(NotSelected, NotSelected,
                   {Out("tcp", FALSE, FALSE, 1, "method required")})
       ELSE UNION {
           IF s.ok /\ s.scheme = S_mem
           THEN Routed(s, s, cmdGRPCMem(address, args))
           ELSE IF s.ok /\ s.scheme = S_stdio
           THEN Routed(s, s, cmdGRPCStdio(P_grpc_stdio \o address, args))
           ELSE IF resolveHolon(cands, pathBin) = NoBinary
           THEN Routed(s, s, {Out("tcp", FALSE, FALSE, 1, "not found")})
           ELSE Routed(s, s, ephemeralTCP)
           : s \in selectTransportHere(address)}

cmdGRPC(uri, args) ==
    IF HasPrefix(uri, P_grpc_stdio)
    THEN Routed(NotSelected, NotSelected, cmdGRPCStdio(uri, args))
    ELSE IF HasPrefix(uri, P_grpc_unix)
    THEN Routed(NotSelected, NotSelected,
                cmdGRPCDirect(<<"u", "n", "i", "x", ":", "/", "/">>
                                \o TrimPrefix(uri, P_grpc_unix), args))
    ELSE IF HasPrefix(uri, P_grpc_ws) \/ HasPrefix(uri, P_grpc_wss)
    THEN Routed(NotSelected, NotSelected, cmdGRPCWebSocket(uri, args))
    ELSE cmdGRPCTCP(uri, args)

\* Mutation: the scheme is selected before the command is mapped.
cmdHolonSelectFirst(holon, args) ==
    IF Len(args) = 0
    THEN Routed(NotSelected, NotSelected, {Out("none", FALSE, FALSE, 1, "missing command")})
    ELSE LET m == mapHolonCommandToRPC(args)
         IN UNION {
                IF m.err # ""
                THEN Routed(s, NotSelected, {Out("none", FALSE, FALSE, 1, m.err)})
                ELSE IF ~s.ok
                THEN Routed(s, NotSelected, {Out("none", FALSE, FALSE, 1, s.err)})
                ELSE IF s.scheme = S_mem
                THEN Routed(s, NotSelected, callViaMem(holon))
                ELSE IF s.scheme = S_stdio
                THEN (IF resolveHolon(cands, pathBin) = NoBinary
                      THEN Routed(s, NotSelected,
                                  {Out("stdio", FALSE, FALSE, 1, "unknown holon")})
                      ELSE Routed(s, NotSelected, callViaStdio))
                ELSE {[sel |-> s, sel2 |-> r.sel2, out |-> r.out] :
                        r \in cmdGRPCTCP(P_grpc \o holon, <<m.method, m.inputJSON>>)}
                : s \in selectTransportHere(holon)}

\* Mutation: a scheme other than mem and stdio is served over the pipe.
cmdHolonPipeByDefault(holon, args) ==
    IF Len(args) = 0
    THEN Routed(NotSelected, NotSelected, {Out("none", FALSE, FALSE, 1, "missing command")})
    ELSE LET m == mapHolonCommandToRPC(args)
         IN IF m.err # ""
            THEN Routed(NotSelected, NotSelected, {Out("none", FALSE, FALSE, 1, m.err)})
            ELSE UNION {
                IF ~s.ok
                THEN Routed(s, NotSelected, {Out("none", FALSE, FALSE, 1, s.err)})
                ELSE IF s.scheme = S_mem
                THEN Routed(s, NotSelected, callViaMem(holon))
                ELSE IF resolveHolon(cands, pathBin) = NoBinary
                THEN Routed(s, NotSelected,
                            {Out("stdio", FALSE, FALSE, 1, "unknown holon")})
                ELSE Routed(s, NotSelected, callViaStdio)
                : s \in selectTransportHere(holon)}

cmdHolon(holon, args) ==
    IF Len(args) = 0
    THEN Routed(NotSelected, NotSelected, {Out("none", FALSE, FALSE, 1, "missing command")})
    ELSE LET m == mapHolonCommandToRPC(args)
         IN IF m.err # ""
            THEN Routed(NotSelected, NotSelected, {Out("none", FALSE, FALSE, 1, m.err)})
            ELSE UNION {
                IF ~s.ok
                THEN Routed(s, NotSelected, {Out("none", FALSE, FALSE, 1, s.err)})
                ELSE IF s.scheme = S_mem
                THEN Routed(s, NotSelected, callViaMem(holon))
                ELSE IF s.scheme = S_stdio
                THEN (IF resolveHolon(cands, pathBin) = NoBinary
                      THEN Routed(s, NotSelected,
                                  {Out("stdio", FALSE, FALSE, 1, "unknown holon")})
                      ELSE Routed(s, NotSelected, callViaStdio))
                ELSE {[sel |-> s, sel2 |-> r.sel2, out |-> r.out] :
                        r \in cmdGRPCTCP(P_grpc \o holon, <<m.method, m.inputJSON>>)}
                : s \in selectTransportHere(holon)}

U_abc == <<"a", "b", "c">>
HolonArgs == {<<>>, <<V_list>>, <<V_show>>, <<V_pin>>, <<V_show, U_abc>>}
GRPCArgs == {<<>>, <<M_ListIdentities>>}
GRPCURIs ==
    {P_grpc \o n : n \in Names} \cup
    {P_grpc \o A_hostport, P_grpc_stdio \o N_who,
     P_grpc_unix \o <<"/", "s">>, P_grpc_ws \o <<"h">>}

DispEnvUnchanged ==
    UNCHANGED <<cfgFile, cfgDot, cfgTop, cfgNested, cands, pathBin, manifests,
                scanLang, envCount, notDisp>>

\* op <holon> <command> [args...]
CmdHolon ==
    /\ selPc = "setup"
    /\ \E holon \in Names, args \in HolonArgs :
         \E r \in cmdHolon(holon, args) :
            /\ dCmd' = [cmd |-> "holon", target |-> holon, args |-> args]
            /\ holonName' = holon
            /\ selResult' = r.sel
            /\ dSel2' = r.sel2
            /\ dOut' = r.out
    /\ selPc' = "done"
    /\ DispEnvUnchanged

\* op grpc...://<target> [method [json]]
CmdGRPC ==
    /\ selPc = "setup"
    /\ \E uri \in GRPCURIs, args \in GRPCArgs :
         \E r \in cmdGRPC(uri, args) :
            /\ dCmd' = [cmd |-> "grpc", target |-> uri, args |-> args]
            /\ holonName' = TrimPrefix(uri, P_grpc)
            /\ selResult' = r.sel
            /\ dSel2' = r.sel2
            /\ dOut' = r.out
    /\ selPc' = "done"
    /\ DispEnvUnchanged

DispNext ==
    \/ WriteDotKey
    \/ WriteNestedKey
    \/ WriteTopScalar
    \/ BreakConfig
    \/ SeedBinary
    \/ InstallOnPath
    \/ SeedManifest
    \/ SeedScanned
    \/ CmdHolon
    \/ CmdGRPC

SpecDispatch == SelInit /\ [][DispNext]_vars

\* The holon's overrides are all strings naming no scheme of the closed set.
MalformedOverrideFor(name) ==
    /\ cfgFile = "ok"
    /\ EntriesFor(name) # {}
    /\ \A e \in EntriesFor(name) : e \in MalformedValues

\* C11: when the scheme selected for a holon is mem and the name has no
\* in-memory composer, `op <holon> <command>` does not fail on that: the call
\* is made over stdio.
C11_MemFallback ==
    (/\ selPc = "done"
     /\ dCmd.cmd = "holon"
     /\ selResult = Ok(S_mem)
     /\ ~resolveMemComposer(holonName)
     /\ BinaryResolves)
        => /\ dOut.route = "stdio"
           /\ dOut.err # "mem composition not available"

C19_MalformedHardFailure ==
    (/\ selPc = "done"
     /\ dCmd.cmd \in {"holon", "grpc"}
     /\ dCmd.target \in Names \cup {P_grpc \o n : n \in Names}
     /\ Len(dCmd.args) > 0
     /\ MalformedOverrideFor(holonName))
        => /\ dOut.exit = 1
           /\ ~dOut.spawned
           /\ ~dOut.rpc

-----------------------------------------------------------------------------
(* The verb mapper on its own: one argument list, mapped once.              *)

notVerb == <<selVars, reflVars, lifeVars, dispVars, searchVars, streamVars, memVars,
    laterVars>>

A_holons == <<"h", "o", "l", "o", "n", "s">>
A_quote == <<"a", "\"", "b">>
A_angle == <<"<", "x", "\\">>
J_obj == <<"{", "\"", "a", "\"", ":", "1", "}">>
J_arr == <<" ", "[", "1", "]">>
V_List_spaced == <<" ", "L", "i", "s", "t", " ">>
V_NEW == <<"N", "E", "W">>
V_Zap == <<"Z", "a", "p">>
V_Zap_spaced == <<" ", "Z", "a", "p">>
J_open == <<"{", "x">>

MaxRest == 2
VerbTokens == {V_new, V_list, V_show, V_pin, V_List_spaced, V_NEW, V_Zap, V_Zap_spaced}
RestTokens == {U_abc, A_holons, A_quote, A_angle, J_obj, J_arr, J_open}
VerbArgs ==
    {<<v>> \o r : v \in VerbTokens,
                  r \in UNION {[1..n -> RestTokens] : n \in 0..MaxRest}}

VerbInit ==
    /\ vArgs \in VerbArgs
    /\ vOut = [applied |-> FALSE, method |-> <<>>, inputJSON |-> <<>>, err |-> ""]
    /\ SelFresh /\ ReflFresh /\ LifeFresh /\ DispFresh /\ SearchFresh /\ StreamFresh
    /\ MemFresh /\ LaterFresh

MapHolonCommandToRPC ==
    /\ ~vOut.applied
    /\ LET r == mapHolonCommandToRPC(vArgs)
       IN vOut' = [applied |-> TRUE, method |-> r.method,
                   inputJSON |-> r.inputJSON, err |-> r.err]
    /\ UNCHANGED <<vArgs, notVerb>>

VerbNext == MapHolonCommandToRPC

SpecVerb == VerbInit /\ [][VerbNext]_vars

\* The value starts, after blanks, with an opening brace or bracket.
StartsJSON(v) ==
    \E i \in 1..Len(v) :
        /\ v[i] \in {"{", "["}
        /\ \A j \in 1..(i - 1) : v[j] = " "

HexEscapes ==
    { <<<<"0", "0", "3", "c">>, "<">>, <<<<"0", "0", "3", "e">>, ">">>,
      <<<<"0", "0", "2", "6">>, "&">> }

\* What a JSON reader makes of the inside of a string literal; "invalid" for
\* a text that is no string literal's inside.
RECURSIVE JsonDecode(_)
JsonDecode(e) ==
    IF e = <<>> THEN <<>>
    ELSE IF Head(e) = "\"" THEN "invalid"
    ELSE IF Head(e) = "\\"
    THEN (IF Len(e) >= 2 /\ e[2] \in {"\"", "\\"}
          THEN LET r == JsonDecode(SubSeq(e, 3, Len(e)))
               IN IF r = "invalid" THEN r ELSE <<e[2]>> \o r
          ELSE IF Len(e) >= 6 /\ e[2] = "u"
                  /\ \E h \in HexEscapes : h[1] = SubSeq(e, 3, 6)
          THEN LET h == CHOOSE x \in HexEscapes : x[1] = SubSeq(e, 3, 6)
                   r == JsonDecode(SubSeq(e, 7, Len(e)))
               IN IF r = "invalid" THEN r ELSE <<h[2]>> \o r
          ELSE "invalid")
    ELSE LET r == JsonDecode(Tail(e))
         IN IF r = "invalid" THEN r ELSE <<Head(e)>> \o r

\* The payload is a JSON object with the one member key: value.
DecodesTo(payload, key, value) ==
    LET pre == <<"{", "\"">> \o key \o <<"\"", ":", "\"">>
    IN /\ HasPrefix(payload, pre)
       /\ HasSuffix(payload, <<"\"", "}">>)
       /\ Len(payload) >= Len(pre) + 2
       /\ JsonDecode(SubSeq(payload, Len(pre) + 1, Len(payload) - 2)) = value

vVerb == ToLower(TrimSpace(vArgs[1]))
vRest == Tail(vArgs)
vHasArg == Len(vRest) > 0
vJSON == vHasArg /\ StartsJSON(vRest[1])

\* C20 as stated: new gives CreateIdentity with the next argument as payload
\* when it looks like JSON and {} otherwise; list gives ListIdentities with
\* {"rootDir": arg} for a non-JSON next argument and {} otherwise; show and
\* pin give ShowIdentity and PinVersion with {"uuid": arg} built from the
\* positional.
C20_VerbTableAsStated ==
    vOut.applied =>
        /\ vVerb = V_new =>
              /\ vOut.err = "" /\ vOut.method = M_CreateIdentity
              /\ vOut.inputJSON = (IF vJSON THEN vRest[1] ELSE EmptyObject)
        /\ vVerb = V_list =>
              /\ vOut.err = "" /\ vOut.method = M_ListIdentities
              /\ (vHasArg /\ ~vJSON) => DecodesTo(vOut.inputJSON, K_rootDir, vRest[1])
              /\ ~(vHasArg /\ ~vJSON) => vOut.inputJSON = EmptyObject
        /\ (vVerb \in {V_show, V_pin} /\ vHasArg) =>
              /\ vOut.err = ""
              /\ vOut.method = (IF vVerb = V_show THEN M_ShowIdentity ELSE M_PinVersion)
              /\ DecodesTo(vOut.inputJSON, K_uuid, vRest[1])

\* C20, amended: for every verb a next argument that looks like JSON is the
\* payload as it is.  Otherwise new gives {} ; list gives {"rootDir": arg},
\* or {} without argument; show and pin give {"uuid": arg} and fail without
\* the positional.  The methods are CreateIdentity, ListIdentities,
\* ShowIdentity and PinVersion.
C20_VerbTable ==
    vOut.applied =>
        /\ vVerb = V_new =>
              /\ vOut.err = "" /\ vOut.method = M_CreateIdentity
              /\ vOut.inputJSON = (IF vJSON THEN vRest[1] ELSE EmptyObject)
        /\ vVerb = V_list =>
              /\ vOut.err = "" /\ vOut.method = M_ListIdentities
              /\ vJSON => vOut.inputJSON = vRest[1]
              /\ (vHasArg /\ ~vJSON) => DecodesTo(vOut.inputJSON, K_rootDir, vRest[1])
              /\ ~vHasArg => vOut.inputJSON = EmptyObject
        /\ vVerb \in {V_show, V_pin} =>
              /\ ~vHasArg => vOut.err # ""
              /\ vHasArg =>
                    /\ vOut.err = ""
                    /\ vOut.method = (IF vVerb = V_show THEN M_ShowIdentity
                                      ELSE M_PinVersion)
                    /\ vJSON => vOut.inputJSON = vRest[1]
                    /\ ~vJSON => DecodesTo(vOut.inputJSON, K_uuid, vRest[1])

\* C20's case: `list` followed by a JSON object was mapped, and the object is
\* the payload.
C20_Witness ==
    /\ vOut.applied
    /\ vArgs = <<V_list, J_obj>>
    /\ vOut.method = M_ListIdentities
    /\ vOut.inputJSON = J_obj

-----------------------------------------------------------------------------
(* The search for the method (client.go: Dial, DialStdio, DialWebSocket;    *)
(* stdio_compose.go: invokeViaReflection; mem_compose.go:                   *)
(* callSophiaWhoRPC).  A listed service is its name, whether its descriptor *)
(* resolves, and the methods of the descriptor in order.                    *)

notSearch == <<selVars, reflVars, lifeVars, dispVars, verbVars, streamVars, memVars,
    laterVars>>

ReflectionV1Alpha == "grpc.reflection.v1alpha.ServerReflection"
ReflectionV1 == "grpc.reflection.v1.ServerReflection"

\* strings.LastIndex(s, "/"), 1-based, 0 when absent
LastIndexSlash(s) ==
    LET At == {i \in 1..Len(s) : s[i] = "/"}
    IN IF At = {} THEN 0 ELSE CHOOSE i \in At : \A j \in At : j <= i

canonicalMethodName(method) ==
    LET trimmed == TrimSpace(method)
        i == LastIndexSlash(trimmed)
    IN IF i >= 1 /\ i < Len(trimmed)
       THEN SubSeq(trimmed, i + 1, Len(trimmed))
       ELSE trimmed

\* fmt.Sprintf("%s/%s", svc.Name, method.Name())
Pair(svc, method) == [svc |-> svc, method |-> method]

Found(svc, method, seen, tried) ==
    [found |-> TRUE, svc |-> svc, method |-> method, seen |-> seen, tried |-> tried]
NotFound(seen, tried) ==
    [found |-> FALSE, svc |-> "", method |-> <<>>, seen |-> seen, tried |-> tried]

\* Mutation: the loop ends at the first service whose descriptor does not
\* resolve.
RECURSIVE searchLoopAborting(_, _)
searchLoopAborting(listing, target) ==
    IF listing = <<>> THEN NotFound(<<>>, <<>>)
    ELSE LET svc == Head(listing) IN
         IF svc.name \in {ReflectionV1Alpha, ReflectionV1}
         THEN searchLoopAborting(Tail(listing), target)
         ELSE IF ~svc.ok
         THEN NotFound(<<>>, <<svc.name>>)
         ELSE LET Hit == {i \in 1..Len(svc.methods) : svc.methods[i] = target}
              IN IF Hit # {}
                 THEN LET i == CHOOSE h \in Hit : \A k \in Hit : h <= k
                      IN Found(svc.name, svc.methods[i],
                               [k \in 1..i |-> Pair(svc.name, svc.methods[k])],
                               <<svc.name>>)
                 ELSE LET r == searchLoopAborting(Tail(listing), target)
                      IN [r EXCEPT
                            !.seen = [k \in 1..Len(svc.methods) |->
                                        Pair(svc.name, svc.methods[k])] \o @,
                            !.tried = <<svc.name>> \o @]

\* The loop over the listed services: the reflection services are skipped, a
\* service whose descriptor does not resolve is passed over, the first method
\* with the target name ends the loop.  seen are the pairs met on the way,
\* tried the services whose descriptor was asked for.
RECURSIVE searchLoop(_, _)
searchLoop(listing, target) ==
    IF listing = <<>> THEN NotFound(<<>>, <<>>)
    ELSE LET svc == Head(listing) IN
         IF svc.name \in {ReflectionV1Alpha, ReflectionV1}
         THEN searchLoop(Tail(listing), target)
         ELSE IF ~svc.ok
         THEN LET r == searchLoop(Tail(listing), target)
              IN [r EXCEPT !.tried = <<svc.name>> \o @]
         ELSE LET Hit == {i \in 1..Len(svc.methods) : svc.methods[i] = target}
              IN IF Hit # {}
                 THEN LET i == CHOOSE h \in Hit : \A k \in Hit : h <= k
                      IN Found(svc.name, svc.methods[i],
                               [k \in 1..i |-> Pair(svc.name, svc.methods[k])],
                               <<svc.name>>)
                 ELSE LET r == searchLoop(Tail(listing), target)
                      IN [r EXCEPT
                            !.seen = [k \in 1..Len(svc.methods) |->
                                        Pair(svc.name, svc.methods[k])] \o @,
                            !.tried = <<svc.name>> \o @]

\* Dial's second pass: every pair of every service that resolves.
RECURSIVE availableMethods(_)
availableMethods(listing) ==
    IF listing = <<>> THEN <<>>
    ELSE LET svc == Head(listing) IN
         IF svc.name \in {ReflectionV1Alpha, ReflectionV1} \/ ~svc.ok
         THEN availableMethods(Tail(listing))
         ELSE [k \in 1..Len(svc.methods) |-> Pair(svc.name, svc.methods[k])]
              \o availableMethods(Tail(listing))

Invoked(r) ==
    [invoked |-> TRUE, svc |-> r.svc, method |-> r.method, err |-> "",
     listed |-> FALSE, available |-> <<>>, tried |-> r.tried]
MethodNotFound(listed, available, tried) ==
    [invoked |-> FALSE, svc |-> "", method |-> <<>>, err |-> "method not found",
     listed |-> listed, available |-> available, tried |-> tried]

\* grpcclient.Dial: the argument is compared as it is.
DialSearch(listing, methodName) ==
    LET r == searchLoop(listing, methodName)
    IN IF r.found THEN Invoked(r)
       ELSE MethodNotFound(TRUE, availableMethods(listing), r.tried)

\* invokeViaReflection: the canonical name is compared.
invokeViaReflection(listing, method) ==
    LET r == searchLoop(listing, canonicalMethodName(method))
    IN IF r.found THEN Invoked(r)
       ELSE MethodNotFound(TRUE, r.seen, r.tried)

\* grpcclient.DialStdio: as Dial, and the error names the method only.
DialStdioSearch(listing, methodName) ==
    LET r == searchLoop(listing, methodName)
    IN IF r.found THEN Invoked(r)
       ELSE MethodNotFound(FALSE, <<>>, r.tried)

\* grpcclient.DialWebSocket
DialWebSocketSearch(listing, methodName) ==
    LET r == searchLoop(listing, methodName)
    IN IF r.found THEN Invoked(r)
       ELSE MethodNotFound(TRUE, r.seen, r.tried)

SophiaWhoService == "sophia_who.v1.SophiaWhoService"
SophiaWhoMethods ==
    {M_CreateIdentity, M_ShowIdentity, M_ListIdentities, M_PinVersion}

\* callSophiaWhoRPC: a switch on the canonical name; nothing is listed.
callSophiaWhoRPC(methodName) ==
    LET method == canonicalMethodName(methodName)
    IN IF method \in SophiaWhoMethods
       THEN [invoked |-> TRUE, svc |-> SophiaWhoService, method |-> method,
             err |-> "", listed |-> FALSE, available |-> <<>>, tried |-> <<>>]
       ELSE MethodNotFound(FALSE, <<>>, <<>>)

MaxListed == 2
Q_ListIdentities == <<"s", "/", "L", "i", "s", "t", "I", "d", "e", "n", "t", "i", "t", "i", "e", "s">>
Q_Trailing == <<"L", "i", "s", "t", "I", "d", "e", "n", "t", "i", "t", "i", "e", "s", "/">>
MethodArgs == {M_ListIdentities, Q_ListIdentities, Q_Trailing, V_Zap}
MethodLists == {<<>>, <<M_ListIdentities>>, <<M_PinVersion, M_ListIdentities>>}
Services ==
    [name : {"a.A", "b.B"}, ok : BOOLEAN, methods : MethodLists]
    \cup [name : {ReflectionV1Alpha}, ok : {TRUE}, methods : {<<>>}]
Listings ==
    {l \in UNION {[1..n -> Services] : n \in 0..MaxListed} :
        \A i, j \in 1..Len(l) : i # j => l[i].name # l[j].name}

\* op grpc://host:port <method>
Dial ==
    /\ sPath = "none"
    /\ sPath' = "tcp"
    /\ \E listing \in Listings, method \in MethodArgs :
          /\ sListing' = listing
          /\ sMethod' = method
          /\ sOut' = DialSearch(listing, method)
    /\ UNCHANGED notSearch

\* callViaStdio, over the pipe of the started holon
InvokeViaReflectionSearch ==
    /\ sPath = "none"
    /\ sPath' = "stdio"
    /\ \E listing \in Listings, method \in MethodArgs :
          /\ sListing' = listing
          /\ sMethod' = method
          /\ sOut' = invokeViaReflection(listing, method)
    /\ UNCHANGED notSearch

\* grpcclient.DialStdio(binaryPath, method, input)
DialStdio ==
    /\ sPath = "none"
    /\ sPath' = "pipe"
    /\ \E listing \in Listings, method \in MethodArgs :
          /\ sListing' = listing
          /\ sMethod' = method
          /\ sOut' = DialStdioSearch(listing, method)
    /\ UNCHANGED notSearch

\* op grpc+ws://host:port <method>
DialWebSocket ==
    /\ sPath = "none"
    /\ sPath' = "ws"
    /\ \E listing \in Listings, method \in MethodArgs :
          /\ sListing' = listing
          /\ sMethod' = method
          /\ sOut' = DialWebSocketSearch(listing, method)
    /\ UNCHANGED notSearch

\* The mem path asks no server for its services.
CallSophiaWhoRPC ==
    /\ sPath = "none"
    /\ sPath' = "mem"
    /\ \E method \in MethodArgs :
          /\ sMethod' = method
          /\ sOut' = callSophiaWhoRPC(method)
    /\ sListing' = <<[name |-> SophiaWhoService, ok |-> TRUE,
                      methods |-> <<M_CreateIdentity, M_ShowIdentity,
                                    M_ListIdentities, M_PinVersion>>]>>
    /\ UNCHANGED notSearch

\* The loop of ListMethods: every service but the reflection ones is asked
\* for its descriptor; one that does not resolve is passed over.
RECURSIVE listLoop(_)
listLoop(listing) ==
    IF listing = <<>> THEN [methods |-> <<>>, tried |-> <<>>]
    ELSE LET svc == Head(listing)
             r == listLoop(Tail(listing))
         IN IF svc.name \in {ReflectionV1Alpha, ReflectionV1} THEN r
            ELSE IF ~svc.ok THEN [r EXCEPT !.tried = <<svc.name>> \o @]
            ELSE [methods |-> [k \in 1..Len(svc.methods) |->
                                 Pair(svc.name, svc.methods[k])] \o r.methods,
                  tried |-> <<svc.name>> \o r.tried]

Listed(methods, tried) ==
    [invoked |-> FALSE, svc |-> "", method |-> <<>>, err |-> "",
     listed |-> TRUE, available |-> methods, tried |-> tried]

\* Mutation: the first method found is called to see whether it answers.
ListMethodsInvoking(listing) ==
    LET r == listLoop(listing)
    IN IF r.methods = <<>> THEN Listed(r.methods, r.tried)
       ELSE [Listed(r.methods, r.tried) EXCEPT !.invoked = TRUE,
                                               !.svc = r.methods[1].svc,
                                               !.method = r.methods[1].method]

\* grpcclient.ListMethods on a server whose answer is the listing.
ListMethods(listing) ==
    LET r == listLoop(listing)
    IN Listed(r.methods, r.tried)

\* op grpc://host:port, no method: cmdGRPCDirect calls ListMethods.  The
\* server answers ListServices with a listing or with an error response; the
\* latter has no ListServicesResponse, whose Service field is read all the same.
CmdGRPCDirectList ==
    /\ sPath = "none"
    /\ sPath' = "list"
    /\ sMethod' = <<>>
    /\ \/ \E listing \in Listings :
             /\ sListing' = listing
             /\ sOut' = ListMethods(listing)
       \/ /\ sListing' = <<>>
          /\ sOut' = [Listed(<<>>, <<>>) EXCEPT !.err = "nil pointer dereference",
                                               !.listed = FALSE]
    /\ UNCHANGED notSearch

SearchInit == SelFresh /\ ReflFresh /\ LifeFresh /\ MoreFresh

SearchNext ==
    \/ Dial
    \/ InvokeViaReflectionSearch
    \/ DialStdio
    \/ DialWebSocket
    \/ CallSophiaWhoRPC
    \/ CmdGRPCDirectList

SpecSearch == SearchInit /\ [][SearchNext]_vars

ReflectionPaths == {"tcp", "stdio", "pipe", "ws"}

\* The listed services, by position, that are no reflection service.
Searchable == {i \in 1..Len(sListing) :
                  sListing[i].name \notin {ReflectionV1Alpha, ReflectionV1}}

\* Those of them whose descriptor resolves and has a method of that name.
Offering(name) ==
    {i \in Searchable :
        /\ sListing[i].ok
        /\ \E k \in 1..Len(sListing[i].methods) : sListing[i].methods[k] = name}

\* The argument is a qualified path: a '/' with something after it.
Qualified(arg) == LastIndexSlash(arg) \in 1..(Len(arg) - 1)
SuffixOf(arg) == SubSeq(arg, LastIndexSlash(arg) + 1, Len(arg))

\* The members of a set of positions, in ascending order.
RECURSIVE Ascending(_)
Ascending(S) ==
    IF S = {} THEN <<>>
    ELSE LET lo == CHOOSE i \in S : \A j \in S : i <= j
         IN <<lo>> \o Ascending(S \ {lo})

\* Every <service>/<method> pair of the services that resolve, in order.
RECURSIVE PairsOf(_)
PairsOf(positions) ==
    IF positions = <<>> THEN <<>>
    ELSE LET svc == sListing[Head(positions)]
         IN (IF svc.ok
             THEN [k \in 1..Len(svc.methods) |-> Pair(svc.name, svc.methods[k])]
             ELSE <<>>) \o PairsOf(Tail(positions))

\* C12: on every path a qualified argument svc/Method selects what Method
\* selects: the method of that simple name is called when a service offers it.
C12_SuffixMatch ==
    (sPath # "none" /\ Qualified(sMethod)) =>
        /\ sOut.invoked <=> Offering(SuffixOf(sMethod)) # {}
        /\ sOut.invoked => sOut.method = SuffixOf(sMethod)

\* C13: when no listed service offers the method, the call fails with a
\* method-not-found error that carries the available <service>/<method>
\* pairs, and nothing is invoked.
C13_NotFoundLists ==
    (/\ sPath \in ReflectionPaths
     /\ LastIndexSlash(sMethod) = 0
     /\ Offering(sMethod) = {})
        => /\ ~sOut.invoked
           /\ sOut.err = "method not found"
           /\ sOut.listed
           /\ sOut.available = PairsOf(Ascending(Searchable))

\* C14: a listed service whose descriptor does not resolve does not end the
\* search: the descriptor of every listed service is asked for until the
\* method is found, and the first service offering it is the one invoked.
C14_SearchGoesOn ==
    (sPath \in ReflectionPaths /\ LastIndexSlash(sMethod) = 0) =>
        LET first == CHOOSE i \in Offering(sMethod) : \A j \in Offering(sMethod) : i <= j
        IN IF Offering(sMethod) # {}
           THEN /\ sOut.invoked
                /\ sOut.svc = sListing[first].name
                /\ sOut.method = sMethod
                /\ sOut.tried =
                     [k \in 1..Cardinality({i \in Searchable : i <= first}) |->
                        sListing[Ascending({i \in Searchable : i <= first})[k]].name]
           ELSE /\ ~sOut.invoked
                /\ sOut.tried =
                     [k \in 1..Cardinality(Searchable) |->
                        sListing[Ascending(Searchable)[k]].name]

\* C14's case: the first listed service does not resolve, the second offers
\* the method and is invoked.
C14_Witness ==
    /\ sPath = "tcp"
    /\ Len(sListing) = 2
    /\ ~sListing[1].ok /\ sListing[1].name = "a.A"
    /\ sListing[2].ok /\ sListing[2].name = "b.B"
    /\ sMethod = M_ListIdentities
    /\ sOut.invoked /\ sOut.svc = "b.B"
    /\ sOut.tried = <<"a.A", "b.B">>

\* C16: a dependency is asked for by its name; when that fails and the name
\* does not start with protos/, it is asked for once more with protos/
\* prepended, and never otherwise; the resolution fails exactly when the last
\* of these requests failed.
C16_PrefixRetry ==
    LET q == lastLookup.requests
        dep == lastLookup.dep
        prefixed == Len(dep) >= 7 /\ SubSeq(dep, 1, 7) = <<"p", "r", "o", "t", "o", "s", "/">>
    IN q # <<>> =>
        /\ Len(q) \in {1, 2}
        /\ q[1].name = dep
        /\ Len(q) = 2 <=> (q[1].failed /\ ~prefixed)
        /\ Len(q) = 2 => q[2].name = <<"p", "r", "o", "t", "o", "s", "/">> \o dep
        /\ reflPc = "error" <=> q[Len(q)].failed

\* C16's case: the lookup by name failed, the one with protos/ was answered,
\* and the walk went on.
C16_Witness ==
    /\ Len(lastLookup.requests) = 2
    /\ lastLookup.requests[1].failed
    /\ ~lastLookup.requests[2].failed
    /\ reflPc # "error"

-----------------------------------------------------------------------------
(* One reflection stream (client.go: Dial, resolveService,                  *)
(* resolveFileByName; stdio_compose.go: invokeViaReflection,                *)
(* resolveReflectedService, resolveReflectedFileByName).  The client is one *)
(* goroutine: each request is a stream.Send followed by a stream.Recv.  The *)
(* server answers the requests in the order they arrive.                    *)

notStream == <<selVars, reflVars, lifeVars, dispVars, verbVars, searchVars, memVars,
    laterVars>>

MaxRequests == 4

\* ListServices opens every use of the stream; the resolutions follow.
RequestKinds(n) ==
    IF n = 0 THEN {"ListServices"}
    ELSE {"FileContainingSymbol", "FileByFilename"}

\* Mutation: the client sends without having read the answer before.
mayGoOnUnread(p) == p \in {"send", "recv"}

\* The statement after a Send is the Recv of its answer: the next Send is
\* reached only from there.
mayGoOn(p) == p = "send"

\* stream.Send(request): the request is on the stream.
StreamSend ==
    /\ mayGoOn(rsPc)
    /\ ~rsBroken
    /\ rsSent < MaxRequests
    /\ \E k \in RequestKinds(rsSent) :
          LET req == [id |-> rsSent + 1, kind |-> k]
          IN /\ toServer' = Append(toServer, req)
             /\ rsCur' = req
    /\ rsSent' = rsSent + 1
    /\ rsPc' = "recv"
    /\ UNCHANGED <<rsBroken, toClient, rsPairs, notStream>>

\* stream.Send on a failed stream returns an error: the function returns
\* without a Recv, and the caller may go on to its next service.
StreamSendFails ==
    /\ mayGoOn(rsPc)
    /\ rsBroken
    /\ rsSent < MaxRequests
    /\ rsSent' = rsSent + 1
    /\ rsPc' = "send"
    /\ UNCHANGED <<rsCur, rsBroken, toServer, toClient, rsPairs, notStream>>

\* The server reads the oldest request and answers it, with descriptors or
\* with an error response.
ServerAnswers ==
    /\ toServer # <<>>
    /\ ~rsBroken
    /\ \E ok \in BOOLEAN :
          toClient' = Append(toClient, [for |-> Head(toServer), ok |-> ok])
    /\ toServer' = Tail(toServer)
    /\ UNCHANGED <<rsPc, rsSent, rsCur, rsBroken, rsPairs, notStream>>

\* stream.Recv(): the oldest response, taken for the answer to the request of
\* the Send before it.
StreamRecv ==
    /\ rsPc = "recv"
    /\ toClient # <<>>
    /\ rsPairs' = Append(rsPairs, [request |-> rsCur, response |-> Head(toClient)])
    /\ toClient' = Tail(toClient)
    /\ rsPc' = "send"
    /\ UNCHANGED <<rsSent, rsCur, rsBroken, toServer, notStream>>

\* The stream fails while the client waits: Recv returns an error and what
\* was in flight is gone.
StreamBreaks ==
    /\ rsPc = "recv"
    /\ ~rsBroken
    /\ rsBroken' = TRUE
    /\ toServer' = <<>>
    /\ toClient' = <<>>
    /\ rsPc' = "send"
    /\ UNCHANGED <<rsSent, rsCur, rsPairs, notStream>>

\* The function using the stream returns (method invoked, not found, error).
StreamDone ==
    /\ rsPc = "send"
    /\ rsSent > 0
    /\ rsPc' = "closed"
    /\ UNCHANGED <<rsSent, rsCur, rsBroken, toServer, toClient, rsPairs, notStream>>

StreamInit == SelFresh /\ ReflFresh /\ LifeFresh /\ MoreFresh

StreamNext ==
    \/ StreamSend
    \/ StreamSendFails
    \/ ServerAnswers
    \/ StreamRecv
    \/ StreamBreaks
    \/ StreamDone

SpecStream == StreamInit /\ [][StreamNext]_vars

\* Requests sent and not yet answered to the client.
Outstanding == Len(toServer) + Len(toClient)

\* C15: on one reflection stream at most one request is outstanding; when
\* the client is about to send, none is; and every response received is the
\* answer to the request the client sent last.
C15_OneAtATime ==
    /\ Outstanding <= 1
    /\ rsPc \in {"send", "closed"} => Outstanding = 0
    /\ \A i \in 1..Len(rsPairs) : rsPairs[i].response.for = rsPairs[i].request
    /\ \A i, j \in 1..Len(rsPairs) :
          i < j => rsPairs[i].request.id < rsPairs[j].request.id

\* C15's case: three requests were sent, each answered before the next.
C15_Witness ==
    /\ Len(rsPairs) = 3
    /\ rsPairs[1].request.kind = "ListServices"
    /\ rsPairs[2].request.kind = "FileContainingSymbol"
    /\ rsPairs[3].request.kind = "FileByFilename"
    /\ rsPc = "send"

-----------------------------------------------------------------------------
(* The in-memory composer (mem_compose.go): dialMemHolon called from        *)
(* several goroutines.  who, sophia and sophia-who are entries for the one  *)
(* sophiaMemComposer.  sync.Once lets the first caller run the function and *)
(* holds every other caller until it has returned.                          *)

notMem == <<selVars, reflVars, lifeVars, dispVars, verbVars, searchVars, streamVars,
    laterVars>>

N_WHO_spaced == <<" ", "W", "H", "O">>
MemNames == {N_who, N_sophia, N_sophia_who, N_WHO_spaced, N_atlas}

At(c, p) == mCallers[c].pc = p
Goto(c, p) == [mCallers EXCEPT ![c].pc = p]

\* Mutation: a caller enters while another is still running the function.
onceEntersUnguarded(o) == o \in {"fresh", "running"}

\* once.Do runs the function for the caller that finds the Once unused.
onceEnters(o) == o = "fresh"

\* dialMemHolon(ctx, holonName): resolveMemComposer
DialMemHolon ==
    \E c \in Callers, name \in MemNames :
       /\ At(c, "idle")
       /\ mCallers' = [mCallers EXCEPT
                         ![c].name = name,
                         ![c].pc = IF resolveMemComposer(name) THEN "once" ELSE "failed"]
       /\ UNCHANGED <<mOnce, mListener, mCreated, mServers, notMem>>

\* composer.once.Do(...) entered by the caller that runs the function.
OnceDo ==
    \E c \in Callers :
       /\ At(c, "once")
       /\ onceEnters(mOnce)
       /\ mOnce' = "running"
       /\ mCallers' = Goto(c, "listen")
       /\ UNCHANGED <<mListener, mCreated, mServers, notMem>>

\* composer.listener = transport.NewMemListener()
NewMemListener ==
    \E c \in Callers :
       /\ At(c, "listen")
       /\ mCreated' = mCreated + 1
       /\ mListener' = mCreated + 1
       /\ mCallers' = Goto(c, "serve")
       /\ UNCHANGED <<mOnce, mServers, notMem>>

\* s := grpc.NewServer(); composer.register(s); go s.Serve(composer.listener);
\* the function returns and the Once is done.
Serve ==
    \E c \in Callers :
       /\ At(c, "serve")
       /\ mServers' = mServers \cup {mListener}
       /\ mOnce' = "done"
       /\ mCallers' = Goto(c, "dial")
       /\ UNCHANGED <<mListener, mCreated, notMem>>

\* composer.once.Do(...) returning at once: the function has been run.
OnceDone ==
    \E c \in Callers :
       /\ At(c, "once")
       /\ mOnce = "done"
       /\ mCallers' = Goto(c, "dial")
       /\ UNCHANGED <<mOnce, mListener, mCreated, mServers, notMem>>

\* holonsgrpcclient.DialMem(ctx, composer.listener)
DialMem ==
    \E c \in Callers :
       /\ At(c, "dial")
       /\ mCallers' = [mCallers EXCEPT ![c].dialed = mListener, ![c].pc = "dialed"]
       /\ UNCHANGED <<mOnce, mListener, mCreated, mServers, notMem>>

MemInit == SelFresh /\ ReflFresh /\ LifeFresh /\ MoreFresh

MemNext ==
    \/ DialMemHolon
    \/ OnceDo
    \/ NewMemListener
    \/ Serve
    \/ OnceDone
    \/ DialMem

SpecMem == MemInit /\ [][MemNext]_vars

\* C17: whatever the interleaving of the callers, one listener is made and
\* one server serves on it, every caller that dialed dialed that listener,
\* and the composer's listener, once set, stays what it is.
C17_OncePair ==
    /\ [](/\ mCreated <= 1
          /\ Cardinality(mServers) <= 1
          /\ \A c \in Callers :
                At(c, "dialed") =>
                    /\ mCallers[c].dialed # 0
                    /\ mCallers[c].dialed = mListener
                    /\ mServers = {mListener})
    /\ [][mListener # 0 => mListener' = mListener]_vars

\* C17's case: three goroutines asked for who, sophia and sophia-who at the
\* same time, and all of them dialed the one listener.
C17_Witness ==
    /\ mCallers[1].name = N_who /\ mCallers[2].name = N_sophia
    /\ mCallers[3].name = N_sophia_who
    /\ \A c \in Callers : At(c, "dialed") /\ mCallers[c].dialed = 1
    /\ mCreated = 1

-----------------------------------------------------------------------------
(* What a JSON reader accepts (RFC 8259), as far as the payloads go: a      *)
(* position in the text is advanced over one value, 0 when there is none.   *)

JsonDigits == {"0", "1", "2", "3", "4", "5", "6", "7", "8", "9"}

RECURSIVE JsonSkip(_, _)
JsonSkip(s, i) == IF i <= Len(s) /\ s[i] = " " THEN JsonSkip(s, i + 1) ELSE i

\* From the character after the opening quote to the one after the closing.
RECURSIVE JsonStringEnd(_, _)
JsonStringEnd(s, i) ==
    IF i > Len(s) THEN 0
    ELSE IF s[i] = "\"" THEN i + 1
    ELSE IF s[i] = "\\"
    THEN (IF i + 1 <= Len(s) /\ s[i + 1] \in {"\"", "\\", "/", "b", "f", "n", "r", "t"}
          THEN JsonStringEnd(s, i + 2)
          ELSE IF i + 5 <= Len(s) /\ s[i + 1] = "u"
                  /\ \A k \in 2..5 : s[i + k] \in JsonDigits \cup
                        {"a", "b", "c", "d", "e", "f", "A", "B", "C", "D", "E", "F"}
          THEN JsonStringEnd(s, i + 6)
          ELSE 0)
    ELSE JsonStringEnd(s, i + 1)

RECURSIVE JsonDigitsEnd(_, _)
JsonDigitsEnd(s, i) ==
    IF i <= Len(s) /\ s[i] \in JsonDigits THEN JsonDigitsEnd(s, i + 1) ELSE i

RECURSIVE JsonValueEnd(_, _)
RECURSIVE JsonMembersEnd(_, _)
RECURSIVE JsonElementsEnd(_, _)

\* After a value of an array: a comma and the next value, or the bracket.
JsonElementsEnd(s, i) ==
    LET e == JsonValueEnd(s, i)
        j == JsonSkip(s, e)
    IN IF e = 0 \/ j > Len(s) THEN 0
       ELSE IF s[j] = "]" THEN j + 1
       ELSE IF s[j] = "," THEN JsonElementsEnd(s, j + 1)
       ELSE 0

\* A member of an object: string, colon, value; then a comma or the brace.
JsonMembersEnd(s, i) ==
    LET k == JsonSkip(s, i)
        q == IF k <= Len(s) /\ s[k] = "\"" THEN JsonStringEnd(s, k + 1) ELSE 0
        c == JsonSkip(s, q)
        e == IF q # 0 /\ c <= Len(s) /\ s[c] = ":" THEN JsonValueEnd(s, c + 1) ELSE 0
        j == JsonSkip(s, e)
    IN IF e = 0 \/ j > Len(s) THEN 0
       ELSE IF s[j] = "}" THEN j + 1
       ELSE IF s[j] = "," THEN JsonMembersEnd(s, j + 1)
       ELSE 0

JsonValueEnd(s, i) ==
    LET j == JsonSkip(s, i)
    IN IF i = 0 \/ j > Len(s) THEN 0
       ELSE IF s[j] = "{"
       THEN (LET k == JsonSkip(s, j + 1)
             IN IF k <= Len(s) /\ s[k] = "}" THEN k + 1 ELSE JsonMembersEnd(s, j + 1))
       ELSE IF s[j] = "["
       THEN (LET k == JsonSkip(s, j + 1)
             IN IF k <= Len(s) /\ s[k] = "]" THEN k + 1 ELSE JsonElementsEnd(s, j + 1))
       ELSE IF s[j] = "\"" THEN JsonStringEnd(s, j + 1)
       ELSE IF s[j] \in JsonDigits
       THEN JsonDigitsEnd(s, j)
       ELSE 0

\* The text is one JSON value, blanks around it allowed.
ValidJSON(s) ==
    LET e == JsonValueEnd(s, 1)
    IN e # 0 /\ JsonSkip(s, e) = Len(s) + 1

C21_BuiltPayloadsValid ==
    (vOut.applied /\ vOut.err = "" /\ ~vJSON) => ValidJSON(vOut.inputJSON)

\* m is the token without the blanks before and after it.
Stripped(token, m) ==
    /\ m = <<>> \/ (m[1] # " " /\ m[Len(m)] # " ")
    /\ \E a \in 0..Len(token) :
          /\ a + Len(m) <= Len(token)
          /\ SubSeq(token, a + 1, a + Len(m)) = m
          /\ \A k \in 1..Len(token) : (k <= a \/ k > a + Len(m)) => token[k] = " "

MappedVerbs == {V_new, V_list, V_show, V_pin}

\* C22 as stated: a first token that is none of new, list, show, pin comes
\* back itself as the method name, with {} or the following JSON argument.
C22_FallbackAsStated ==
    (vOut.applied /\ vVerb \notin MappedVerbs) =>
        /\ vOut.err = ""
        /\ vOut.method = vArgs[1]
        /\ vOut.inputJSON = (IF vJSON THEN vRest[1] ELSE EmptyObject)

\* C22, amended: a first token that is none of new, list, show, pin comes
\* back as the method name without the blanks around it and in its own
\* letter case, with {} or the following JSON argument.
C22_Fallback ==
    (vOut.applied /\ vVerb \notin MappedVerbs) =>
        /\ vOut.err = ""
        /\ Stripped(vArgs[1], vOut.method)
        /\ vOut.inputJSON = (IF vJSON THEN vRest[1] ELSE EmptyObject)

\* C22's case: " Zap" followed by a JSON object gave the method Zap and the
\* object.
C22_Witness ==
    /\ vOut.applied
    /\ vArgs = <<V_Zap_spaced, J_obj>>
    /\ vOut.method = V_Zap
    /\ vOut.inputJSON = J_obj

\* `<holon> show` or `<holon> pin` with nothing after the verb.
MissingUUID ==
    /\ dCmd.cmd = "holon"
    /\ Len(dCmd.args) = 1
    /\ ToLower(TrimSpace(dCmd.args[1])) \in {V_show, V_pin}

C30_UnknownHolon ==
    (/\ dCmd.cmd = "holon"
     /\ Len(dCmd.args) > 0
     /\ ~MissingUUID
     /\ ~BinaryResolves
     /\ NoOverrideFor(holonName))
        => /\ dOut.exit = 1
           /\ dOut.err = "unknown holon"

-----------------------------------------------------------------------------
(* The global format flag (commands.go): parseGlobalFormat, parseFormat.    *)

notFormat == <<selVars, reflVars, lifeVars, dispVars, verbVars, searchVars,
               streamVars, memVars, acceptVars, runVars, lastVars>>

FormatText == <<"t", "e", "x", "t">>
FormatJSON == <<"j", "s", "o", "n">>
F_short == <<"-", "f">>
F_long == <<"-", "-", "f", "o", "r", "m", "a", "t">>
F_short_eq == <<"-", "f", "=">>
F_long_eq == <<"-", "-", "f", "o", "r", "m", "a", "t", "=">>

Parsed(format, rest) == [format |-> format, rest |-> rest, err |-> ""]
ParseError(msg) == [format |-> <<>>, rest |-> <<>>, err |-> msg]

parseFormat(value) ==
    LET v == ToLower(TrimSpace(value))
    IN IF v = FormatText THEN Parsed(FormatText, <<>>)
       ELSE IF v = FormatJSON THEN Parsed(FormatJSON, <<>>)
       ELSE ParseError("invalid --format")

\* The loop of parseGlobalFormat from position i with the format so far.
RECURSIVE parseGlobalFormatFrom(_, _, _)
parseGlobalFormatFrom(args, i, format) ==
    IF i > Len(args) THEN Parsed(format, <<>>)
    ELSE IF args[i] = F_long \/ args[i] = F_short
    THEN (IF i + 1 > Len(args) THEN ParseError("requires a value")
          ELSE LET p == parseFormat(args[i + 1])
               IN IF p.err # "" THEN p
                  ELSE parseGlobalFormatFrom(args, i + 2, p.format))
    ELSE IF HasPrefix(args[i], F_long_eq)
    THEN (LET p == parseFormat(TrimPrefix(args[i], F_long_eq))
          IN IF p.err # "" THEN p
             ELSE parseGlobalFormatFrom(args, i + 1, p.format))
    ELSE IF HasPrefix(args[i], F_short_eq)
    THEN (LET p == parseFormat(TrimPrefix(args[i], F_short_eq))
          IN IF p.err # "" THEN p
             ELSE parseGlobalFormatFrom(args, i + 1, p.format))
    ELSE Parsed(format, SubSeq(args, i, Len(args)))

\* Mutation: format flags are taken out wherever they stand.
RECURSIVE parseAnywhereFrom(_, _, _, _)
parseAnywhereFrom(args, i, format, kept) ==
    IF i > Len(args) THEN Parsed(format, kept)
    ELSE IF args[i] = F_long \/ args[i] = F_short
    THEN (IF i + 1 > Len(args) THEN ParseError("requires a value")
          ELSE LET p == parseFormat(args[i + 1])
               IN IF p.err # "" THEN p
                  ELSE parseAnywhereFrom(args, i + 2, p.format, kept))
    ELSE IF HasPrefix(args[i], F_long_eq)
    THEN (LET p == parseFormat(TrimPrefix(args[i], F_long_eq))
          IN IF p.err # "" THEN p
             ELSE parseAnywhereFrom(args, i + 1, p.format, kept))
    ELSE IF HasPrefix(args[i], F_short_eq)
    THEN (LET p == parseFormat(TrimPrefix(args[i], F_short_eq))
          IN IF p.err # "" THEN p
             ELSE parseAnywhereFrom(args, i + 1, p.format, kept))
    ELSE parseAnywhereFrom(args, i + 1, format, Append(kept, args[i]))

parseGlobalFormatAnywhere(args) == parseAnywhereFrom(args, 1, FormatText, <<>>)

parseGlobalFormat(args) == parseGlobalFormatFrom(args, 1, FormatText)

MaxFormatArgs == 3
T_json_upper == <<"J", "S", "O", "N">>
T_yaml_inline == <<"-", "-", "f", "o", "r", "m", "a", "t", "=", "y", "a", "m", "l">>
T_text_inline == <<"-", "-", "f", "o", "r", "m", "a", "t", "=", "t", "e", "x", "t">>
T_json_inline == <<"-", "f", "=", "j", "s", "o", "n">>
FormatTokens ==
    {F_short, F_long, T_json_inline, T_text_inline, T_yaml_inline,
     FormatJSON, T_json_upper, N_who}
FormatArgs == UNION {[1..n -> FormatTokens] : n \in 0..MaxFormatArgs}

FormatInit ==
    /\ fArgs \in FormatArgs
    /\ fOut = [applied |-> FALSE, format |-> <<>>, rest |-> <<>>, err |-> ""]
    /\ SelFresh /\ ReflFresh /\ LifeFresh /\ DispFresh
    /\ VerbFresh /\ SearchFresh /\ StreamFresh /\ MemFresh /\ AcceptFresh /\ RunFresh
    /\ LastFresh

ParseGlobalFormat ==
    /\ ~fOut.applied
    /\ LET r == parseGlobalFormat(fArgs)
       IN fOut' = [applied |-> TRUE, format |-> r.format, rest |-> r.rest,
                   err |-> r.err]
    /\ UNCHANGED <<fArgs, notFormat>>

FormatNext == ParseGlobalFormat

SpecFormat == FormatInit /\ [][FormatNext]_vars

\* The token is a format flag carrying its value after an equals sign.
InlineFlag(t) ==
    \/ Len(t) >= 3 /\ SubSeq(t, 1, 3) = <<"-", "f", "=">>
    \/ Len(t) >= 9 /\ SubSeq(t, 1, 9) = <<"-", "-", "f", "o", "r", "m", "a", "t", "=">>
InlineValue(t) ==
    IF t[2] = "f" THEN SubSeq(t, 4, Len(t)) ELSE SubSeq(t, 10, Len(t))
PairFlag(t) == t = <<"-", "f">> \/ t = <<"-", "-", "f", "o", "r", "m", "a", "t">>

\* The format flags the arguments begin with: their values in order, the
\* position of the first token after them, and whether the last lacks its
\* value.
RECURSIVE LeadingFlags(_, _)
LeadingFlags(args, i) ==
    IF i > Len(args) THEN [values |-> <<>>, end |-> i, missing |-> FALSE]
    ELSE IF PairFlag(args[i])
    THEN (IF i = Len(args) THEN [values |-> <<>>, end |-> i + 1, missing |-> TRUE]
          ELSE LET r == LeadingFlags(args, i + 2)
               IN [r EXCEPT !.values = <<args[i + 1]>> \o @])
    ELSE IF InlineFlag(args[i])
    THEN (LET r == LeadingFlags(args, i + 1)
          IN [r EXCEPT !.values = <<InlineValue(args[i])>> \o @])
    ELSE [values |-> <<>>, end |-> i, missing |-> FALSE]

fLead == LeadingFlags(fArgs, 1)

\* The format a value names when letter case and surrounding blanks are set
\* aside; <<>> when it names none.
FormatNamed(v) ==
    LET Windows == {SubSeq(v, a, a + 3) : a \in 1..(Len(v) - 3)}
        Named == {ToLower(m) : m \in {w \in Windows : /\ Stripped(v, w)
                                                      /\ ToLower(w) \in {FormatText, FormatJSON}}}
    IN IF Named = {} THEN <<>> ELSE CHOOSE f \in Named : TRUE

\* C24 as stated: only the format flags before the first other token are
\* consumed, the rest comes back unchanged; the format is text by default;
\* a missing value or a value other than text and json is an error.
C24_GlobalFormatAsStated ==
    fOut.applied =>
        LET bad == \E k \in 1..Len(fLead.values) :
                      fLead.values[k] \notin {FormatText, FormatJSON}
        IN /\ fOut.err # "" <=> (fLead.missing \/ bad)
           /\ fOut.err = "" =>
                /\ fOut.rest = SubSeq(fArgs, fLead.end, Len(fArgs))
                /\ fOut.format = (IF fLead.values = <<>> THEN FormatText
                                  ELSE fLead.values[Len(fLead.values)])

\* C24, amended: as above, with a value read without regard to letter case
\* and surrounding blanks: an error is a missing value or a value that so
\* read is neither text nor json.
C24_GlobalFormat ==
    fOut.applied =>
        LET bad == \E k \in 1..Len(fLead.values) : FormatNamed(fLead.values[k]) = <<>>
        IN /\ fOut.err # "" <=> (fLead.missing \/ bad)
           /\ fOut.err = "" =>
                /\ fOut.rest = SubSeq(fArgs, fLead.end, Len(fArgs))
                /\ fOut.format = (IF fLead.values = <<>> THEN FormatText
                                  ELSE FormatNamed(fLead.values[Len(fLead.values)]))

\* C24's case: `who -f json`: the flag after the positional stays in the
\* arguments and the format is text.
C24_Witness ==
    /\ fOut.applied
    /\ fArgs = <<N_who, F_short, FormatJSON>>
    /\ fOut.rest = fArgs
    /\ fOut.format = FormatText
    /\ fOut.err = ""

-----------------------------------------------------------------------------
(* The two shapes of an override, over SpecSelect *)

UpperCh(c) ==
    IF \E i \in 1..Len(Lowers) : Lowers[i] = c
    THEN Uppers[CHOOSE i \in 1..Len(Lowers) : Lowers[i] = c]
    ELSE c

\* The value with the letters of its scheme in upper or in lower case.
SchemeCased(v, Ch(_)) ==
    LET i == Index(v, SchemeSep)
        n == IF i > 0 THEN i - 1 ELSE Len(v)
    IN [k \in 1..Len(v) |-> IF k <= n THEN Ch(v[k]) ELSE v[k]]
Cased(v) == {v, SchemeCased(v, UpperCh), SchemeCased(v, LowerCh)}

\* A .holonconfig holding only the flat key, only the nested mapping.
FlatOnly(k, v) ==
    [dot |-> [x \in DotKeys |-> IF x = k THEN YStr(v) ELSE YAbsent],
     top |-> [key |-> W_transport, kind |-> "absent"],
     nested |-> [x \in NestKeys |-> YAbsent]]
NestedOnly(tk, k, v) ==
    [dot |-> [x \in DotKeys |-> YAbsent],
     top |-> [key |-> tk, kind |-> "map"],
     nested |-> [x \in NestKeys |-> IF x = k THEN YStr(v) ELSE YAbsent]]

\* selectTransport's possible results in this working directory under the
\* given config.
selectTransportUnder(c, name) ==
    selectTransport("ok", c.dot, c.top, c.nested, cands, pathBin, manifests, scanLang, name)

\* The results under every spelling of the override of `who` to v, in either
\* shape, asked for under either spelling of the holon name.
AllShapes(v) ==
    {selectTransportUnder(FlatOnly(k, w), n) :
        k \in DotKeys, w \in Cased(v), n \in {N_who, N_WHO}}
    \cup
    {selectTransportUnder(NestedOnly(tk, k, w), n) :
        tk \in TopKeys, k \in NestKeys, w \in Cased(v), n \in {N_who, N_WHO}}

\* The config of the working directory holds one override of `who`, a string,
\* in one shape only.
cfgHere == [dot |-> cfgDot, top |-> cfgTop, nested |-> cfgNested]
OneShape(v) ==
    /\ cfgFile = "ok"
    /\ \/ \E k \in DotKeys : cfgHere = FlatOnly(k, v)
       \/ \E tk \in TopKeys, k \in NestKeys : cfgHere = NestedOnly(tk, k, v)

-----------------------------------------------------------------------------
(* Spawning and the readiness gate, over SpecLifecycle *)

C28_ReadinessGate ==
    via = "pipe" =>
        /\ (dialLog # <<>> \/ rpcTried \/ pc \in {"dialing", "connected"}) => firstByte
        /\ stderr \in {"server did not start", "server startup timeout"} =>
              /\ dialLog = <<>>
              /\ ~rpcTried
              /\ pending = 1
              /\ pc \in {"deferred", "returned"}
              /\ pc = "returned" => (exitCode = 1 /\ sentKill /\ child = "reaped")

\* C28's case: the deadline passed before the child wrote anything; DialStdio
\* returned its error and the child was killed and reaped.
C28_Witness ==
    /\ via = "pipe"
    /\ pc = "returned"
    /\ stderr = "server startup timeout"
    /\ ~firstByte
    /\ dialLog = <<>>
    /\ ~rpcTried
    /\ exitCode = 1
    /\ sentKill
    /\ child = "reaped"

-----------------------------------------------------------------------------
(* The stdio pseudo-listener: transport.stdioListener and stdioConn *)

notAccept == <<selVars, reflVars, lifeVars, dispVars, verbVars, searchVars,
               streamVars, memVars, formatVars, runVars, lastVars>>

\* Accept calls in one run at most.
MaxAccepts == 3
\* The goroutines that call Accept.
Acceptors == {"g1", "g2", "g3"}

\* Mutation: the receive leaves the connection in the channel.
recvPeek(ch) == ch

\* `conn, ok := <-l.connCh` takes the value at the head of the buffer.
recv(ch) == Tail(ch)

AcceptInit == SelFresh /\ ReflFresh /\ LifeFresh /\ MoreFresh

\* A goroutine enters Accept and reaches the select.
AcceptCall ==
    /\ ~lPanic
    /\ Len(lAccepts) + Cardinality(lWaiting) < MaxAccepts
    /\ \E g \in Acceptors \ lWaiting :
          /\ lWaiting' = lWaiting \cup {g}
          /\ lLate' = IF lHeld THEN lLate \cup {g} ELSE lLate
          /\ lAfterClose' = IF lOnce THEN lAfterClose \cup {g} ELSE lAfterClose
    /\ UNCHANGED <<connCh, connChClosed, lDone, lOnce, lPanic, lAccepts, lHeld,
                   lConnPc, notAccept>>

\* The select takes the first case and the channel holds the connection (a
\* closed channel still delivers what it buffers): Accept returns it.
AcceptConn ==
    /\ ~lPanic
    /\ connCh # <<>>
    /\ \E g \in lWaiting :
          /\ lWaiting' = lWaiting \ {g}
          /\ lLate' = lLate \ {g}
          /\ lAfterClose' = lAfterClose \ {g}
    /\ lAccepts' = Append(lAccepts, Head(connCh))
    /\ connCh' = recv(connCh)
    /\ lHeld' = TRUE
    /\ UNCHANGED <<connChClosed, lDone, lOnce, lPanic, lConnPc, notAccept>>

\* The select takes the first case on the closed and drained channel: !ok.
AcceptClosedCh ==
    /\ ~lPanic
    /\ connCh = <<>>
    /\ connChClosed
    /\ \E g \in lWaiting :
          /\ lWaiting' = lWaiting \ {g}
          /\ lLate' = lLate \ {g}
          /\ lAfterClose' = lAfterClose \ {g}
    /\ lAccepts' = Append(lAccepts, "EOF")
    /\ UNCHANGED <<connCh, connChClosed, lDone, lOnce, lPanic, lHeld, lConnPc,
                   notAccept>>

\* The select takes the second case: done is closed.
AcceptDone ==
    /\ ~lPanic
    /\ lDone
    /\ \E g \in lWaiting :
          /\ lWaiting' = lWaiting \ {g}
          /\ lLate' = lLate \ {g}
          /\ lAfterClose' = lAfterClose \ {g}
    /\ lAccepts' = Append(lAccepts, "EOF")
    /\ UNCHANGED <<connCh, connChClosed, lDone, lOnce, lPanic, lHeld, lConnPc,
                   notAccept>>

\* stdioListener.Close: once, close(l.done) and close(l.connCh); closing a
\* channel that is closed already panics.
ListenerClose ==
    /\ ~lPanic
    /\ ~lOnce
    /\ lOnce' = TRUE
    /\ IF lDone
       THEN lPanic' = TRUE /\ UNCHANGED <<lDone, connChClosed>>
       ELSE lDone' = TRUE /\ connChClosed' = TRUE /\ UNCHANGED lPanic
    /\ UNCHANGED <<connCh, lWaiting, lAccepts, lHeld, lConnPc, lLate, lAfterClose,
                   notAccept>>

\* stdioConn.Close, the select: done is closed (return) or not (default).
ConnCloseSelect ==
    /\ ~lPanic
    /\ lHeld
    /\ lConnPc = "idle"
    /\ ~lDone
    /\ lConnPc' = "checked"
    /\ UNCHANGED <<connCh, connChClosed, lDone, lOnce, lPanic, lWaiting, lAccepts,
                   lHeld, lLate, lAfterClose,
                   notAccept>>

\* stdioConn.Close, the default case: close(c.done).
ConnCloseDefault ==
    /\ ~lPanic
    /\ lConnPc = "checked"
    /\ lConnPc' = "idle"
    /\ IF lDone
       THEN lPanic' = TRUE /\ UNCHANGED lDone
       ELSE lDone' = TRUE /\ UNCHANGED lPanic
    /\ UNCHANGED <<connCh, connChClosed, lOnce, lWaiting, lAccepts, lHeld,
                   lLate, lAfterClose,
                   notAccept>>

AcceptNext ==
    \/ AcceptCall
    \/ AcceptConn
    \/ AcceptClosedCh
    \/ AcceptDone
    \/ ListenerClose
    \/ ConnCloseSelect
    \/ ConnCloseDefault

SpecAccept == AcceptInit /\ [][AcceptNext]_vars

\* The returns of Accept that were the connection.
Yields == {k \in 1..Len(lAccepts) : lAccepts[k] = "stdioConn"}

\* C27 as stated: the connection is yielded by one Accept, the first, and
\* an Accept after that returns io.EOF: it is not left waiting.
C27_YieldThenEOF ==
    /\ Cardinality(Yields) <= 1
    /\ \A k \in 1..Len(lAccepts) : k > 1 => lAccepts[k] = "EOF"
    /\ (lLate # {} /\ ~lPanic) => (lDone \/ connChClosed)

\* C27, amended: at most one Accept returns the connection and every return
\* after that one is io.EOF; an Accept returns io.EOF only once the listener
\* or the connection was closed, so while neither is closed the first Accept
\* has the connection and a later one waits.
C27_SingleConnection ==
    /\ Cardinality(Yields) <= 1
    /\ \A k \in 1..Len(lAccepts) :
          (\E j \in Yields : j < k) => lAccepts[k] = "EOF"
    /\ lHeld <=> (connCh = <<>>)
    /\ lHeld <=> (Yields # {})
    /\ ~lDone => lAccepts \in {<<>>, <<"stdioConn">>}

\* C27's case: one Accept returned the connection, the connection was closed,
\* and the next Accept returned io.EOF.
C27_Witness ==
    /\ lAccepts = <<"stdioConn", "EOF">>
    /\ lHeld
    /\ lDone
    /\ ~lOnce

-----------------------------------------------------------------------------
(* op run: cmdRun *)

notRun == <<reflVars, lifeVars, dispVars, verbVars, searchVars, streamVars,
            memVars, formatVars, acceptVars, lastVars>>

W_listen == <<"-", "-", "l", "i", "s", "t", "e", "n">>
W_serve == <<"s", "e", "r", "v", "e">>
W_tcpAny == <<"t", "c", "p", ":", "/", "/", ":">>

\* strings.SplitN(s, ":", 2)
SplitN2(s) ==
    LET i == Index(s, <<":">>)
    IN IF i = 0 THEN <<s>> ELSE <<SubSeq(s, 1, i - 1), SubSeq(s, i + 1, Len(s))>>

\* flagValue: the argument after the first occurrence of key that has one.
flagValue(args, key) ==
    LET Flagged == {i \in 1..(Len(args) - 1) : args[i] = key}
    IN IF Flagged = {} THEN <<>>
       ELSE args[(CHOOSE i \in Flagged : \A j \in Flagged : i <= j) + 1]

\* What cmdRun did: its exit code, the command it started, and what it did
\* to the child afterwards.
RunFailed(msg) ==
    [exit |-> 1, spawned |-> FALSE, argv |-> <<>>, waited |-> FALSE,
     killed |-> FALSE, released |-> FALSE, err |-> msg]
RunStarted(argv, released) ==
    [exit |-> 0, spawned |-> TRUE, argv |-> argv, waited |-> FALSE,
     killed |-> FALSE, released |-> released, err |-> ""]

\* From resolveHolon on: start the binary, release it, return.
launch(binary, listenURI, startOk, releaseOk) ==
    IF binary = NoBinary THEN RunFailed("holon not found")
    ELSE IF ~startOk THEN RunFailed("start")
    ELSE RunStarted(<<binary, W_serve, W_listen, listenURI>>, releaseOk)

\* A slip: without a port the default port is listened on.
cmdRunDefaultPort(args, binary, startOk, releaseOk) ==
    IF Len(args) < 1 THEN RunFailed("requires")
    ELSE LET listenURI == flagValue(args, W_listen)
             parts == SplitN2(args[1])
         IN IF listenURI # <<>>
            THEN launch(binary, listenURI, startOk, releaseOk)
            ELSE IF Len(parts) # 2 \/ parts[2] = <<>>
            THEN launch(binary, W_tcpAny \o <<"9", "0", "9", "0">>, startOk, releaseOk)
            ELSE launch(binary, W_tcpAny \o parts[2], startOk, releaseOk)

\* cmdRun(args) where resolveHolon gives binary for the holon named, and
\* cmd.Start and Process.Release succeed or not.
cmdRun(args, binary, startOk, releaseOk) ==
    IF Len(args) < 1 THEN RunFailed("requires")
    ELSE LET listenURI == flagValue(args, W_listen)
             parts == SplitN2(args[1])
         IN IF listenURI # <<>>
            THEN launch(binary, listenURI, startOk, releaseOk)
            ELSE IF Len(parts) # 2 \/ parts[2] = <<>>
            THEN RunFailed("format")
            ELSE launch(binary, W_tcpAny \o parts[2], startOk, releaseOk)

R_who == <<"w", "h", "o">>
R_whoPort == <<"w", "h", "o", ":", "9", "0", "9", "0">>
R_whoColon == <<"w", "h", "o", ":">>
R_whoTwo == <<"w", "h", "o", ":", "9", "0", ":", "1">>
R_uri == <<"u", "n", "i", "x", ":", "/", "/", "/", "s">>

\* The arguments `op run` is given.
RunArgs ==
    { <<>>,
      <<R_who>>,
      <<R_whoPort>>,
      <<R_whoColon>>,
      <<R_whoTwo>>,
      <<R_who, W_listen>>,
      <<R_who, W_listen, R_uri>>,
      <<R_who, W_listen, <<>>>>,
      <<R_whoPort, W_listen, R_uri>> }

RunInit == SelFresh /\ ReflFresh /\ LifeFresh /\ MoreFresh

\* op run <args>
CmdRun ==
    /\ selPc = "setup"
    /\ \E args \in RunArgs, startOk \in BOOLEAN, releaseOk \in BOOLEAN :
          /\ rArgs' = args
          /\ rOut' = cmdRun(args, resolveHolon(cands, pathBin), startOk, releaseOk)
    /\ selPc' = "done"
    /\ UNCHANGED <<cfgFile, cfgDot, cfgTop, cfgNested, cands, pathBin, manifests,
                   scanLang, envCount, holonName, selResult, notRun>>

RunNext ==
    \/ SeedBinary
    \/ InstallOnPath
    \/ CmdRun

SpecRun == RunInit /\ [][RunNext]_vars

\* The two forms of the arguments: a listen URI after --listen, or a first
\* argument <name>:<port> with a port.
ListenForm(uri) ==
    /\ uri # <<>>
    /\ \E i \in 1..(Len(rArgs) - 1) :
          /\ rArgs[i] = W_listen
          /\ rArgs[i + 1] = uri
          /\ \A j \in 1..(i - 1) : rArgs[j] # W_listen
PortForm(port) ==
    /\ port # <<>>
    /\ Len(rArgs) >= 1
    /\ \A u \in {rArgs[i] : i \in 1..Len(rArgs)} : ~ListenForm(u)
    /\ \E n \in 0..Len(rArgs[1]) :
          /\ n + 1 + Len(port) = Len(rArgs[1])
          /\ rArgs[1][n + 1] = ":"
          /\ \A k \in 1..n : rArgs[1][k] # ":"
          /\ SubSeq(rArgs[1], n + 2, Len(rArgs[1])) = port

\* C29: run <name>:<port> starts <binary> serve --listen tcp://:<port>, run
\* <name> --listen <URI> starts it with that URI; after a successful start
\* the exit code is 0 and the child was neither waited for nor killed; with
\* no port or no binary the exit code is 1 and nothing was started.
C29_PersistentLaunch ==
    rOut.exit # -1 =>
        LET b == resolveHolon(cands, pathBin)
            uris == {u \in {rArgs[i] : i \in 1..Len(rArgs)} : ListenForm(u)}
            ports == {SubSeq(rArgs[1], k, Len(rArgs[1])) :
                         k \in 1..(IF rArgs = <<>> THEN 0 ELSE Len(rArgs[1]))}
            ps == {q \in ports : PortForm(q)}
        IN /\ rOut.spawned <=> rOut.exit = 0
           /\ rOut.exit \in {0, 1}
           /\ ~rOut.waited /\ ~rOut.killed
           /\ rOut.spawned =>
                /\ b # NoBinary
                /\ \/ \E u \in uris : rOut.argv = <<b, W_serve, W_listen, u>>
                   \/ \E q \in ps : rOut.argv = <<b, W_serve, W_listen, W_tcpAny \o q>>
           /\ (b = NoBinary \/ (uris = {} /\ ps = {})) => (rOut.exit = 1 /\ ~rOut.spawned)
           /\ (b # NoBinary /\ (uris # {} \/ ps # {}) /\ rOut.exit = 1) => rOut.err = "start"

\* C29's case: `run who:9090` with the binary on the search path: started
\* with tcp://:9090, exit code 0, the child left alone.
C29_Witness ==
    /\ rArgs = <<R_whoPort>>
    /\ resolveHolon(cands, pathBin) = PathBinary
    /\ rOut.exit = 0
    /\ rOut.spawned
    /\ rOut.argv = <<PathBinary, W_serve, W_listen, <<"t", "c", "p", ":", "/", "/", ":", "9", "0", "9", "0">>>>
    /\ ~rOut.waited
    /\ ~rOut.killed

-----------------------------------------------------------------------------
(* The entry point: Run *)

notTop == <<reflVars, lifeVars, dispVars, verbVars, searchVars, streamVars,
            memVars, formatVars, acceptVars, runVars,
           raceVars, portVars>>

W_run == <<"r", "u", "n">>
W_discover == <<"d", "i", "s", "c", "o", "v", "e", "r">>
W_serveCmd == <<"s", "e", "r", "v", "e">>
W_version == <<"v", "e", "r", "s", "i", "o", "n">>
HelpWords == {<<"h", "e", "l", "p">>, <<"-", "-", "h", "e", "l", "p">>, <<"-", "h">>}

\* What Run did: the handler it chose, the name and the arguments it handed
\* to it, and the exit code.
Ran(route, target, args, exit) ==
    [applied |-> TRUE, route |-> route, target |-> target, args |-> args, exit |-> exit]

\* Run(args): the possible outcomes in the working directory as it is.
Run(args) ==
    LET g == parseGlobalFormat(args)
    IN IF g.err # "" THEN {Ran("format", <<>>, <<>>, 1)}
       ELSE IF Len(g.rest) = 0 THEN {Ran("usage", <<>>, <<>>, 1)}
       ELSE LET cmd == g.rest[1]
                rest == Tail(g.rest)
            IN IF cmd = W_run
               THEN {Ran("run", <<>>, rest,
                         cmdRun(rest, resolveHolon(cands, pathBin), ok, rel).exit) :
                        ok \in BOOLEAN, rel \in BOOLEAN}
               ELSE IF cmd = W_discover THEN {Ran("discover", <<>>, <<>>, e) : e \in {0, 1}}
               ELSE IF cmd = W_serveCmd THEN {Ran("serve", <<>>, rest, e) : e \in {0, 1}}
               ELSE IF cmd = W_version THEN {Ran("version", <<>>, <<>>, 0)}
               ELSE IF cmd \in HelpWords THEN {Ran("help", <<>>, <<>>, 0)}
               ELSE IF \E pre \in {P_grpc, P_grpc_stdio, P_grpc_unix, P_grpc_ws, P_grpc_wss} :
                          HasPrefix(cmd, pre)
               THEN {Ran("grpc", cmd, rest, r.out.exit) : r \in cmdGRPC(cmd, rest)}
               ELSE {Ran("holon", cmd, rest, r.out.exit) : r \in cmdHolon(cmd, rest)}

\* The command lines Run is given.
TopArgs ==
    { <<>>,
      <<V_list>>,
      <<V_new>>,
      <<V_show, U_abc>>,
      <<V_pin, U_abc>>,
      <<F_short, FormatJSON, V_list>>,
      <<N_who, V_list>>,
      <<W_version>>,
      <<<<"h", "e", "l", "p">>>>,
      <<W_discover>>,
      <<W_run, R_whoPort>>,
      <<P_grpc \o N_who, M_ListIdentities>> }

TopInit == SelFresh /\ ReflFresh /\ LifeFresh /\ MoreFresh

\* op <args>
RunTop ==
    /\ selPc = "setup"
    /\ \E args \in TopArgs :
          /\ tArgs' = args
          /\ tOut' \in Run(args)
    /\ selPc' = "done"
    /\ UNCHANGED <<cfgFile, cfgDot, cfgTop, cfgNested, cands, pathBin, manifests,
                   scanLang, envCount, holonName, selResult, notTop>>

TopNext ==
    \/ SeedBinary
    \/ InstallOnPath
    \/ SeedManifest
    \/ RunTop

SpecTop == TopInit /\ [][TopNext]_vars

PromotedVerbs == {V_new, V_list, V_show, V_pin}

\* The working directory holds no binary, no manifest and no config.
EmptyTree ==
    /\ cfgFile = "missing"
    /\ resolveHolon(cands, pathBin) = NoBinary
    /\ \A d \in ManifestDirs : ~manifests[d].ok
    /\ ~scanLang.ok

\* C31: a command line whose first token is new, list, show or pin goes to
\* the holon who with the whole argument list, the verb included, and Run
\* returns that dispatch's exit code; `list` in an empty tree returns 0.
C31_PromotedVerbs ==
    (tOut.applied /\ tArgs # <<>> /\ tArgs[1] \in PromotedVerbs) =>
        /\ tOut.route = "holon"
        /\ tOut.target = N_who
        /\ tOut.args = tArgs
        /\ \E r \in cmdHolon(N_who, tArgs) : tOut.exit = r.out.exit
        /\ (tArgs = <<V_list>> /\ EmptyTree) => tOut.exit = 0

SvcAt(p) == CHOOSE i \in 1..Len(sListing) : sListing[i].name = p.svc
MethodAt(p) ==
    CHOOSE k \in 1..Len(sListing[SvcAt(p)].methods) :
        sListing[SvcAt(p)].methods[k] = p.method

\* C33: the listing of methods asks every service but the reflection ones for
\* its descriptor, returns the <service>/<method> pairs of those that
\* resolve, each once and in the order of the listing, and invokes nothing.
C33_ListOnly ==
    sPath = "list" =>
        LET Asked == {i \in 1..Len(sListing) :
                         sListing[i].name \notin {ReflectionV1Alpha, ReflectionV1}}
            Real == UNION {{Pair(sListing[i].name, sListing[i].methods[k]) :
                               k \in 1..Len(sListing[i].methods)} :
                           i \in {a \in Asked : sListing[a].ok}}
            out == sOut.available
        IN /\ ~sOut.invoked
           /\ sOut.err = "" =>
                /\ {out[j] : j \in 1..Len(out)} = Real
                /\ Len(out) = Cardinality(Real)
                /\ \A a, b \in 1..Len(out) :
                      a < b => \/ SvcAt(out[a]) < SvcAt(out[b])
                               \/ /\ SvcAt(out[a]) = SvcAt(out[b])
                                  /\ MethodAt(out[a]) < MethodAt(out[b])
                /\ {sOut.tried[j] : j \in 1..Len(sOut.tried)}
                      = {sListing[i].name : i \in Asked}
                /\ Len(sOut.tried) = Cardinality(Asked)

\* C33's case: the server lists the reflection service and a service with
\* two methods; both pairs were returned and nothing was invoked.
C33_Witness ==
    /\ sPath = "list"
    /\ Len(sListing) = 2
    /\ sListing[1].name = ReflectionV1Alpha
    /\ sListing[2] = [name |-> "a.A", ok |-> TRUE,
                      methods |-> <<M_PinVersion, M_ListIdentities>>]
    /\ sOut.available = <<Pair("a.A", M_PinVersion), Pair("a.A", M_ListIdentities)>>
    /\ ~sOut.invoked
    /\ sOut.err = ""

\* C34: over stdio only connection and RPC errors count: when reflection and
\* the call succeeded, callViaStdio returns the output (exit code 0),
\* whatever exit status the child reports after SIGTERM and however long its
\* termination takes.
C34_OnlyRPCErrors ==
    (via = "stdio" /\ pc = "returned" /\ rpcTried /\ ~callErr) => exitCode = 0

\* C35: whatever the order of the Close calls on the listener and on the
\* connection, the channel done is closed once at most: no call closes a
\* closed channel.
C35_CloseOnce == ~lPanic

\* C36: an Accept called after stdioListener.Close returned gives io.EOF,
\* never the connection, also when Close came before the first Accept.
C36_EOFAfterClose ==
    [][\A g \in lAfterClose :
          g \notin lWaiting' => lAccepts' = Append(lAccepts, "EOF")]_vars

(***************************************************************************)
(* The single-use dialers called by several goroutines                     *)
(***************************************************************************)

notRace == <<selVars, reflVars, lifeVars, dispVars, verbVars, searchVars,
             streamVars, memVars, formatVars, acceptVars, runVars, topVars,
             portVars>>

RaceInit == SelFresh /\ ReflFresh /\ LifeFresh /\ MoreFresh

\* What the dialer's call gave the goroutine.
Dialed(g, which, conn) ==
    [dcCalls EXCEPT ![g] = [dialer |-> which, pc |-> "returned", conn |-> conn]]

\* The stdio dialer: dialOnce.Do. The first caller runs the function; a caller
\* that comes while it runs waits for it; a caller that comes after it finds
\* conn nil and returns the error.
StdioDialerCall ==
    /\ dcOnce # "running"
    /\ \E g \in DialGoroutines :
          /\ dcCalls[g].pc = "idle"
          /\ IF dcOnce = "fresh"
             THEN /\ dcOnce' = "running"
                  /\ dcCalls' = [dcCalls EXCEPT ![g] = [dialer |-> "stdio", pc |-> "inDo",
                                                        conn |-> "none"]]
             ELSE /\ dcCalls' = Dialed(g, "stdio", "nil")
                  /\ UNCHANGED dcOnce
    /\ UNCHANGED <<dcFlag, notRace>>

\* The function of dialOnce.Do has set conn = pConn; the dialer returns it.
StdioDialerReturn ==
    /\ \E g \in DialGoroutines :
          /\ dcCalls[g].pc = "inDo"
          /\ dcCalls' = Dialed(g, "stdio", "pConn")
    /\ dcOnce' = "done"
    /\ UNCHANGED <<dcFlag, notRace>>

\* The WebSocket dialer: `if dialed { return error }`.
WsDialerCheck ==
    /\ \E g \in DialGoroutines :
          /\ dcCalls[g].pc = "idle"
          /\ dcCalls' = IF dcFlag
                        THEN Dialed(g, "ws", "nil")
                        ELSE [dcCalls EXCEPT ![g] = [dialer |-> "ws", pc |-> "checked",
                                                     conn |-> "none"]]
    /\ UNCHANGED <<dcOnce, dcFlag, notRace>>

\* The WebSocket dialer: `dialed = true; return wsConn, nil`.
WsDialerSet ==
    /\ \E g \in DialGoroutines :
          /\ dcCalls[g].pc = "checked"
          /\ dcCalls' = Dialed(g, "ws", "wsConn")
    /\ dcFlag' = TRUE
    /\ UNCHANGED <<dcOnce, notRace>>

RaceNext ==
    \/ StdioDialerCall
    \/ StdioDialerReturn
    \/ WsDialerCheck
    \/ WsDialerSet

SpecRace == RaceInit /\ [][RaceNext]_vars

\* The goroutines whose call of the dialer returned the connection.
Holders(conn) == {g \in DialGoroutines : dcCalls[g].conn = conn}

\* C37: whatever the interleaving of the calls, each dialer gives its
\* connection to one caller at most.
C37_SingleUse ==
    /\ Cardinality(Holders("pConn")) <= 1
    /\ Cardinality(Holders("wsConn")) <= 1

(***************************************************************************)
(* The port of ephemeral TCP dispatch, with other processes on the host    *)
(***************************************************************************)

notPort == <<selVars, reflVars, lifeVars, dispVars, verbVars, searchVars,
             streamVars, memVars, formatVars, acceptVars, runVars, topVars,
             raceVars>>

PortInit == SelFresh /\ ReflFresh /\ LifeFresh /\ MoreFresh

\* The deferred Kill and Wait: the child is gone and its port is free.
Killed(owner) == IF owner = "child" THEN "none" ELSE owner

\* transport.Listen("tcp://:0"): the system picks a port nobody holds.
PortListen ==
    /\ ptPc = "idle"
    /\ \/ ptPc' = "returned" /\ UNCHANGED ptOwner
       \/ ptPc' = "bound" /\ ptOwner' = "op"
    /\ UNCHANGED <<ptChild, ptProbes, ptTarget, notPort>>

\* lis.Close(): the port number is kept, the port is released.
PortRelease ==
    /\ ptPc = "bound"
    /\ ptOwner' = "none"
    /\ ptPc' = "released"
    /\ UNCHANGED <<ptChild, ptProbes, ptTarget, notPort>>

\* exec.Command(binary, "serve", "--listen", "tcp://:"+port) and cmd.Start().
PortStart ==
    /\ ptPc = "released"
    /\ \/ ptPc' = "returned" /\ UNCHANGED ptChild
       \/ ptPc' = "probing" /\ ptChild' = "running"
    /\ UNCHANGED <<ptOwner, ptProbes, ptTarget, notPort>>

\* The child listens on the port it was given.
PortChildBinds ==
    /\ ptChild = "running"
    /\ ptOwner = "none"
    /\ ptOwner' = "child"
    /\ UNCHANGED <<ptPc, ptChild, ptProbes, ptTarget, notPort>>

\* The child ends: it could not listen (the port is taken), or for any
\* other reason.
PortChildExits ==
    /\ ptChild = "running"
    /\ ptChild' = "exited"
    /\ ptOwner' = Killed(ptOwner)
    /\ UNCHANGED <<ptPc, ptProbes, ptTarget, notPort>>

\* Another process of the host binds the port while it is free.
OtherBinds ==
    /\ ptPc \notin {"idle", "bound"}
    /\ ptOwner = "none"
    /\ ptOwner' = "other"
    /\ UNCHANGED <<ptPc, ptChild, ptProbes, ptTarget, notPort>>

\* The other process closes its listener.
OtherReleases ==
    /\ ptOwner = "other"
    /\ ptOwner' = "none"
    /\ UNCHANGED <<ptPc, ptChild, ptProbes, ptTarget, notPort>>

\* net.DialTimeout finds nobody on the port: sleep and try again.
ProbeRefused ==
    /\ ptPc = "probing"
    /\ ptProbes < MaxProbes
    /\ ptOwner = "none"
    /\ ptProbes' = ptProbes + 1
    /\ UNCHANGED <<ptPc, ptOwner, ptChild, ptTarget, notPort>>

\* net.DialTimeout connects to whoever listens on the port: ready.
ProbeConnects ==
    /\ ptPc = "probing"
    /\ ptProbes < MaxProbes
    /\ ptOwner # "none"
    /\ ptProbes' = ptProbes + 1
    /\ ptPc' = "ready"
    /\ UNCHANGED <<ptOwner, ptChild, ptTarget, notPort>>

\* Fifty probes and nobody answered: `did not start within 5s`.
ProbesExhausted ==
    /\ ptPc = "probing"
    /\ ptProbes = MaxProbes
    /\ ptPc' = "returned"
    /\ ptChild' = "exited"
    /\ ptOwner' = Killed(ptOwner)
    /\ UNCHANGED <<ptProbes, ptTarget, notPort>>

\* cmdGRPCDirect(format, target, args) dials localhost:port: the RPC goes to
\* whoever listens there now. Then the deferred Kill and Wait.
PortCall ==
    /\ ptPc = "ready"
    /\ ptTarget' = ptOwner
    /\ ptPc' = "returned"
    /\ ptChild' = "exited"
    /\ ptOwner' = Killed(ptOwner)
    /\ UNCHANGED <<ptProbes, notPort>>

PortNext ==
    \/ PortListen
    \/ PortRelease
    \/ PortStart
    \/ PortChildBinds
    \/ PortChildExits
    \/ OtherBinds
    \/ OtherReleases
    \/ ProbeRefused
    \/ ProbeConnects
    \/ ProbesExhausted
    \/ PortCall

SpecPort == PortInit /\ [][PortNext]_vars

\* C38: the port that was bound and released is held by the spawned child or
\* by nobody, and the RPC that follows a successful probe is answered by the
\* child.
C38_PortIsTheChilds ==
    /\ ptPc = "ready" => ptOwner = "child"
    /\ ptTarget # "other"

\* The names in the queue.
Queued == {queue[k] : k \in 1..Len(queue)}

\* C39: all along the walk the queue holds no name twice and holds exactly the
\* keys of filesByName; the queue only grows at its end; the assembled set has
\* one file for each name, in queue order.
C39_QueueIsKeys ==
    /\ [](/\ \A i, j \in 1..Len(queue) : queue[i] = queue[j] => i = j
          /\ Queued = DOMAIN filesByName
          /\ reflPc = "built" =>
                /\ Len(fds) = Cardinality(DOMAIN filesByName)
                /\ \A k \in 1..Len(fds) : fds[k].name = queue[k])
    /\ [][/\ Len(queue') >= Len(queue)
          /\ SubSeq(queue', 1, Len(queue)) = queue]_vars

\* C39's case: the server sent again a file that was present, an alias was
\* cloned, and the set was assembled from three names.
C39_Witness ==
    /\ reflPc = "built"
    /\ Len(fds) = 3
    /\ \E d \in delivered : \E k \in 1..Len(initial) : d.file.name = initial[k].name
    /\ \E k \in 1..Len(fds) : fds[k].name = D_foo /\ fds[k].body[1] = D_pfoo

(***************************************************************************)
(* The dependency walk against a server whose files import one another     *)
(***************************************************************************)

\* The descriptors of such a server: svc and foo import each other, bar
\* imports itself, and foo is also known as protos/foo.
CyclicPool ==
    { FileDesc(D_svc, <<D_foo, D_bar>>), FileDesc(D_foo, <<D_svc, D_bar>>),
      FileDesc(D_bar, <<D_bar>>), FileDesc(D_pfoo, <<D_bar, D_svc>>),
      FileDesc(<<>>, <<>>) }

CyclicLists == UNION {[1..n -> CyclicPool] : n \in 0..MaxResp}

\* What the server answers to one request: files, or an error response.
CyclicAnswers ==
    {[t |-> "files", files |-> fl] : fl \in CyclicLists}
    \cup {[t |-> "error", files |-> <<>>]}

\* The walk begins: the answer to FileContainingSymbol was registered.
CyclicInit ==
    /\ SelFresh /\ LifeFresh /\ MoreFresh
    /\ initial \in CyclicLists
    /\ LET r == Register([files |-> <<>>, queue |-> <<>>], initial, 1, <<>>)
           p == NextPos(r.files, r.queue, 1, 1)
       IN /\ filesByName = r.files
          /\ queue = r.queue
          /\ qi = p.i
          /\ di = p.j
    /\ reflPc = "walk"
    /\ fds = <<>>
    /\ delivered = {}
    /\ lookups = 0
    /\ lastLookup = [dep |-> <<>>, requests |-> <<>>]
    /\ reqCount = <<>>

\* One dependency that is not present: FileByFilename(dep), on an error once
\* more with protos/ prepended, then registration and alias. The walk goes on
\* as long as the queue has entries.
WalkCyclic ==
    /\ reflPc = "walk"
    /\ qi <= Len(queue)
    /\ LET dep == filesByName[queue[qi]].dependency[di]
           retry(a) == retryWithPrefix(dep, a)
       IN \E a1 \in CyclicAnswers :
          \E a2 \in (IF retry(a1) THEN CyclicAnswers ELSE {a1}) :
             /\ reqCount' = Put(reqCount, dep,
                                Requests(reqCount, dep) + (IF retry(a1) THEN 2 ELSE 1))
             /\ lastLookup' =
                   [dep |-> dep,
                    requests |->
                      <<[name |-> dep, failed |-> a1.t = "error"]>> \o
                      (IF retry(a1)
                       THEN <<[name |-> Protos \o dep, failed |-> a2.t = "error"]>>
                       ELSE <<>>)]
             /\ IF a2.t = "error"
                THEN /\ reflPc' = "error"
                     /\ UNCHANGED <<filesByName, queue, qi, di>>
                ELSE LET r == ResolveDependency(filesByName, queue, dep, a2.files)
                         p == NextPos(r.files, r.queue, qi, di + 1)
                     IN /\ reflPc' = "walk"
                        /\ filesByName' = r.files
                        /\ queue' = r.queue
                        /\ qi' = p.i
                        /\ di' = p.j
    /\ UNCHANGED <<fds, initial, delivered, lookups, notRefl>>

CyclicNext ==
    \/ WalkCyclic
    \/ BuildSet

\* The walk is sequential code: with a server that answers, the step that is
\* possible is taken.
SpecWalkFair ==
    /\ CyclicInit
    /\ [][CyclicNext]_vars
    /\ WF_vars(WalkCyclic)
    /\ WF_vars(BuildSet)

\* The entries of the queued files' dependency lists that name n.
Entries(n) ==
    {<<i, j>> \in (1..Len(queue)) \X (1..2) :
        /\ j <= Len(filesByName[queue[i]].dependency)
        /\ filesByName[queue[i]].dependency[j] = n}

====
